---- MODULE Spec2Model ----
(***************************************************************************)
(* State-machine model of the todo-backend API: users, sessions, lists and *)
(* permissions held in the relational store, the request handlers of       *)
(* server.js, the authenticate / checkPermissions helpers, the token       *)
(* cipher, the request validator and the purge job of database.js.         *)
(*                                                                         *)
(* Strings are tuples of one-character strings.  Time is counted in ticks  *)
(* of 24 hours.      A 16-byte block (nonce, tag) is one token element.    *)
(***************************************************************************)
EXTENDS Integers, Sequences, FiniteSets, TLC

\* ------------------------------------------------------------------ bounds
MaxUsers == 2
MaxSessions == 2
MaxLists == 1
MaxTime == 2
MaxNonce == 0
MaxSalt == 0
MaxItems == 1

\* ------------------------------------------------------- program constants
\* config.js tokenLifetime (24 h), in ticks of 24 hours
TokenLifetime == 1
\* crypto: ivSize and tagSize, in 16-byte blocks
ivSize == 1
tagSize == 1

\* SQL NULL / JS null for an id column (AUTO_INCREMENT ids start at 1)
NULL == 0

Usernames == {<<"a">>, <<"b">>}
\* a username with a colon in it: POST /users takes any non-empty string
ColonName == <<"a", ":", "b">>
Passwords == {<<"p">>, <<"q">>}
ListNames == {<<"g">>}
Nonces == 0..MaxNonce
Salts == 0..MaxSalt

\* ----------------------------------------------------------- string helpers
Digits == <<"0", "1", "2", "3", "4", "5", "6", "7", "8", "9">>

DigitVal(c) == (CHOOSE i \in 1..10 : Digits[i] = c) - 1

IsDigit(c) == \E i \in 1..10 : Digits[i] = c

\* `${n}` : the decimal digits of a non-negative integer
RECURSIVE NatToStr(_)
NatToStr(n) == IF n < 10 THEN <<Digits[n + 1]>>
               ELSE NatToStr(n \div 10) \o <<Digits[(n % 10) + 1]>>

\* Number(x) for a string of digits
RECURSIVE StrToNat(_)
StrToNat(s) == IF Len(s) = 0 THEN 0
               ELSE StrToNat(SubSeq(s, 1, Len(s) - 1)) * 10 + DigitVal(s[Len(s)])

AllDigits(s) == Len(s) > 0 /\ \A i \in 1..Len(s) : IsDigit(s[i])

\* String.prototype.indexOf for a one-character needle (0-based, -1 if absent)
IndexOf(s, c) == IF \E i \in 1..Len(s) : s[i] = c
                 THEN (CHOOSE i \in 1..Len(s) : s[i] = c /\ \A j \in 1..(i - 1) : s[j] # c) - 1
                 ELSE -1

\* String.prototype.slice(a, b) with JS treatment of negative indexes
Slice(s, a, b) ==
    LET n == Len(s)
        from == IF a < 0 THEN (IF n + a < 0 THEN 0 ELSE n + a) ELSE (IF a > n THEN n ELSE a)
        to == IF b < 0 THEN (IF n + b < 0 THEN 0 ELSE n + b) ELSE (IF b > n THEN n ELSE b)
    IN  SubSeq(s, from + 1, to)

InfinityStr == <<"I", "n", "f", "i", "n", "i", "t", "y">>

\* parseIntStrict: /^([-+])?(\d+|Infinity)$/ then Number(x), else NaN
parseIntStrict(x) ==
    LET signed == Len(x) > 0 /\ x[1] \in {"-", "+"}
        rest == IF signed THEN SubSeq(x, 2, Len(x)) ELSE x
        neg == signed /\ x[1] = "-"
    IN  IF AllDigits(rest)
        THEN [kind |-> "num", v |-> IF neg THEN 0 - StrToNat(rest) ELSE StrToNat(rest)]
        ELSE IF rest = InfinityStr
        THEN [kind |-> "inf", v |-> IF neg THEN -1 ELSE 1]
        ELSE [kind |-> "nan", v |-> 0]

isNaN(r) == r.kind = "nan"

\* ----------------------------------------------------------------- errors
\* ClientError: status defaults to 400
DefaultStatus == 400

ClientError(status, code) == [ok |-> FALSE, status |-> status, code |-> code]

ClientErrorDefault(code) == ClientError(DefaultStatus, code)

\* AuthError extends ClientError (adds only a response header)
AuthError(status, code) == ClientError(status, code)

\* any other throwable: the error handler answers 500 internal-error
InternalError == [ok |-> FALSE, status |-> 500, code |-> "internal-error"]

\* ----------------------------------------------------------------- crypto
\* scrypt(password, salt): an ideal key-derivation function, one digest per
\* (password, salt) pair
hashPassword(password, salt) == <<"scrypt", password, salt>>

\* Buffer.compare(a, b): 0 exactly when the buffers hold the same bytes
\* mutant: every digest compares equal
BufferCompareEqual(a, b) == 0

BufferCompare(a, b) == IF a = b THEN 0 ELSE 1

\* JSON.stringify({sessionId}) for a string sessionId
JSONstringify(sessionId) == <<"{", "sessionId", ":", "'">> \o sessionId \o <<"'", "}">>

\* JSON.parse restricted to the texts the cipher can yield: the sealed object,
\* or a text that does not parse
JSONparse(str) ==
    IF /\ Len(str) >= 6
       /\ SubSeq(str, 1, 4) = <<"{", "sessionId", ":", "'">>
       /\ SubSeq(str, Len(str) - 1, Len(str)) = <<"'", "}">>
    THEN [ok |-> TRUE, sessionId |-> SubSeq(str, 5, Len(str) - 2)]
    ELSE [ok |-> FALSE, sessionId |-> <<>>]

\* AES-256-GCM under the server's secret key: counter-mode encryption of each
\* plaintext character under (iv, position), and a tag over (iv, ciphertext)
\* mutant: the keystream does not depend on the iv drawn
CtrEncryptFixedIv(iv, i, ch) == <<"c", <<"iv", 0>>, i, ch>>

CtrEncrypt(iv, i, ch) == <<"c", iv, i, ch>>

CtrDecrypt(iv, i, c) == IF Len(c) = 4 /\ c[1] = "c" /\ c[2] = iv /\ c[3] = i THEN c[4] ELSE "?"

GcmTag(iv, encrypted) == <<"t", iv, encrypted>>

\* the bytes an element of a buffer stands for: an iv or tag block, the quoted
\* key "sessionId", or one character
BlockSize == 16

ByteWeight(e) ==
    IF e[1] \in {"iv", "t"} THEN BlockSize
    ELSE IF e[1] = "c" /\ e[4] = "sessionId" THEN 11
    ELSE 1

RECURSIVE ByteLength(_)
ByteLength(buffer) ==
    IF buffer = <<>> THEN 0 ELSE ByteWeight(Head(buffer)) + ByteLength(Tail(buffer))

\* the bits of the last base64 character that carry no data, as an element
\* of the text
Spare(bits) == <<"spare", bits>>

IsSpare(e) == e[1] = "spare"

\* buffer.toString('base64'): a buffer whose length is not a multiple of 3
\* ends in a character with spare bits, which the encoder sets to zero
ToBase64(buffer) ==
    IF ByteLength(buffer) % 3 = 0 THEN buffer ELSE buffer \o <<Spare(0)>>

\* Buffer.from(text, 'base64'): never throws, and reads the data bits only
FromBase64(text) == SelectSeq(text, LAMBDA e : ~IsSpare(e))

\* encrypt(content): base64(iv || tag || ciphertext), for the nonce drawn
encrypt(sessionId, nonce) ==
    LET str == JSONstringify(sessionId)
        iv == <<"iv", nonce>>
        encrypted == [i \in 1..Len(str) |-> CtrEncrypt(iv, i, str[i])]
        tag == GcmTag(iv, encrypted)
    IN  ToBase64(<<iv, tag>> \o encrypted)

\* decrypt(token): every failure becomes the one ClientError invalid-auth,
\* built without a status
decrypt(token) ==
    LET buffer == FromBase64(token)
        iv == Slice(buffer, 0, ivSize)
        tag == Slice(buffer, ivSize, ivSize + tagSize)
        encrypted == Slice(buffer, ivSize + tagSize, Len(buffer))
        str == [i \in 1..Len(encrypted) |-> CtrDecrypt(iv[1], i, encrypted[i])]
        parsed == JSONparse(str)
    IN  IF Len(iv) # ivSize \/ Len(tag) # tagSize
        THEN ClientErrorDefault("invalid-auth")
        ELSE IF tag[1] # GcmTag(iv[1], encrypted)
        THEN ClientErrorDefault("invalid-auth")
        ELSE IF ~parsed.ok
        THEN ClientErrorDefault("invalid-auth")
        ELSE [ok |-> TRUE, sessionId |-> parsed.sessionId]

\* -------------------------------------------------------------- validation
\* A JS value: its type t, and, as the type has them, the characters s of a
\* string, the number n, the keys of an object in insertion order, and vals,
\* the values of those keys (the elements of an array) in that order.
JValue(t, s, n, keys, vals) == [t |-> t, s |-> s, n |-> n, keys |-> keys, vals |-> vals]
JStr(s) == JValue("string", s, 0, <<>>, <<>>)
JNum(n) == JValue("number", <<>>, n, <<>>, <<>>)
JNull == JValue("null", <<>>, 0, <<>>, <<>>)
JUndefined == JValue("undefined", <<>>, 0, <<>>, <<>>)
JArr(a) == JValue("array", <<>>, 0, <<>>, a)
JObj(keys, vals) == JValue("object", <<>>, 0, keys, vals)
\* new Optional(value)
Optional(value) == JValue("optional", <<>>, 0, <<>>, <<value>>)

\* jsonType: null and undefined are both 'null'
jsonType(value) ==
    IF value.t \in {"null", "undefined"} THEN "null" ELSE value.t

SeqToSet(s) == {s[i] : i \in 1..Len(s)}

\* key in obj
HasKey(obj, key) == key \in SeqToSet(obj.keys)

\* obj[key]: undefined for an absent key
Get(obj, key) == IF HasKey(obj, key) THEN obj.vals[IndexOf(obj.keys, key) + 1]
                 ELSE JUndefined

\* mutant: nothing is subtracted
minusNothing(arr, arr2) == arr

\* minus(arr, arr2)
minus(arr, arr2) == SelectSeq(arr, LAMBDA e : e \notin SeqToSet(arr2))

ValidOk == [ok |-> TRUE, status |-> 200, code |-> "ok"]

\* mutant: every element is held against the first template
ElementTemplateFirst(expected, i) ==
    IF Len(expected) = 0 THEN JUndefined ELSE expected[1]

\* expected[i % expected.length] for the element at position i, counted from
\* 1 here and from 0 in the source; i % 0 is NaN and expected[NaN] undefined
ElementTemplate(expected, i) ==
    IF Len(expected) = 0 THEN JUndefined
    ELSE expected[((i - 1) % Len(expected)) + 1]

\* jsonValidate(actual, expected, path): ValidOk, or the ClientError thrown.
\* top is TRUE while path is still null.
RECURSIVE jsonValidate(_, _, _)
RECURSIVE validateElems(_, _, _)
RECURSIVE validateKeys(_, _, _)
jsonValidate(actual, expected, top) ==
    IF expected.t = "optional"
       /\ (jsonType(actual) = "null" \/ (actual.t = "string" /\ actual.s = <<>>))
    THEN ValidOk
    ELSE
    LET exp == IF expected.t = "optional" THEN expected.vals[1] ELSE expected
        actualType == jsonType(actual)
        expectedType == jsonType(exp)
    IN  IF expectedType # actualType
        THEN ClientErrorDefault("invalid-body")
        ELSE IF expectedType = "string"
        THEN (IF Len(actual.s) = 0 THEN ClientErrorDefault("missing-fields") ELSE ValidOk)
        ELSE IF expectedType = "array"
        THEN validateElems(actual.vals, exp.vals, 1)
        ELSE IF expectedType = "object"
        THEN LET actualKeys == actual.keys
                 expectedKeys == exp.keys
                 missingKeys == minus(SelectSeq(expectedKeys,
                                         LAMBDA k : Get(exp, k).t # "optional"),
                                      actualKeys)
                 unexpectedKeys == minus(actualKeys, expectedKeys)
             IN  IF Len(missingKeys) > 0 THEN ClientErrorDefault("missing-fields")
                 ELSE IF Len(unexpectedKeys) > 0 THEN ClientErrorDefault("unexpected-fields")
                 ELSE validateKeys(actual, exp, 1)
        ELSE ValidOk

\* for(i...) jsonValidate(actual[i], expected[i % expected.length], ...)
validateElems(actual, expected, i) ==
    IF i > Len(actual) THEN ValidOk
    ELSE LET template == ElementTemplate(expected, i)
             r == jsonValidate(actual[i], template, FALSE)
         IN  IF r.ok THEN validateElems(actual, expected, i + 1) ELSE r

\* for(key of expectedKeys) jsonValidate(actual[key], expected[key], ...)
validateKeys(actual, expected, i) ==
    IF i > Len(expected.keys) THEN ValidOk
    ELSE LET key == expected.keys[i]
             r == jsonValidate(Get(actual, key), Get(expected, key), FALSE)
         IN  IF r.ok THEN validateKeys(actual, expected, i + 1) ELSE r

\* ------------------------------------------------------------------ state
VARIABLES
    users,          \* todo.users rows: [id, username, password, salt]
    sessions,       \* todo.sessions rows: [id, userId, expirationDate]
    lists,          \* todo.lists rows: [id, name]
    permissions,    \* todo.permissions rows: [userId, listId, role, copy]
    items,          \* todo.items rows: [id, listId, name, description, state]
    nextItemId,     \* AUTO_INCREMENT of todo.items
    nextUserId,     \* AUTO_INCREMENT counters of users, sessions and lists
    nextSessionId,
    nextListId,
    now,            \* the clock read by Date.now() and NOW()
    issued,         \* tokens handed out so far:
                    \*   sessionId -> [userId, token, expirationDate]
    passwordSet,    \* the password each user set last: userId -> password
    last,           \* the request handled last and the response sent for it
    pool            \* the connection pool and who holds its connections

vars == <<users, sessions, lists, permissions, nextUserId, nextSessionId,
          nextListId, now, issued, passwordSet, items, nextItemId, last, pool>>

store == <<users, sessions, lists, permissions, nextUserId, nextSessionId,
           nextListId>>

\* ------------------------------------------------------------ JS / SQL values
\* a string parameter compared with a numeric column
SqlNumber(s) == IF AllDigits(s) THEN StrToNat(s) ELSE 0

\* the value a query parameter has in SQL: NULL for null / undefined
ToSql(x) == IF jsonType(x) = "null" THEN NULL
            ELSE IF x.t = "number" THEN x.n
            ELSE SqlNumber(x.s)

\* a BIGINT column as mysql2 returns it (bigNumberStrings): a string
BigIntCol(n) == IF n = NULL THEN JNull ELSE JStr(NatToStr(n))

\* JS strict equality of two values
StrictEq(a, b) == a.t = b.t /\ a.s = b.s /\ a.n = b.n

\* ---------------------------------------------------------- request headers
NoAuth == [scheme |-> "none", cred |-> <<>>, token |-> <<>>]
\* an Authorization header of a scheme the server does not know
OtherAuth == [scheme |-> "Digest", cred |-> <<>>, token |-> <<>>]
\* Authorization: Basic base64(cred)
BasicAuth(cred) == [scheme |-> "Basic", cred |-> cred, token |-> <<>>]
\* Authorization: Bearer token
BearerAuth(token) == [scheme |-> "Bearer", cred |-> <<>>, token |-> token]

\* a sealed token with its tag block overwritten
Tamper(token) == [token EXCEPT ![2] = <<"t", <<"iv", -1>>, <<>>>>]

IssuedTokens == {issued[s].token : s \in DOMAIN issued}

ClientTokens == IssuedTokens \cup {Tamper(t) : t \in IssuedTokens} \cup {<<>>}

Headers ==
    {NoAuth, OtherAuth}
    \cup {BasicAuth(u \o <<":">> \o p) : u \in Usernames, p \in Passwords}
    \cup {BasicAuth(ColonName \o <<":", "p">>)}
    \cup {BearerAuth(t) : t \in ClientTokens}

\* ------------------------------------------------------------- authenticate
\* what authenticate returns: {type, userId, sessionId?}
Identity(type, userId, sessionId) ==
    [ok |-> TRUE, status |-> 200, code |-> "ok",
     type |-> type, userId |-> userId, sessionId |-> sessionId]

\* a thrown error, as the value authenticate leaves the handler with
Thrown(e) ==
    [ok |-> FALSE, status |-> e.status, code |-> e.code,
     type |-> "error", userId |-> JNull, sessionId |-> JUndefined]

\* the authenticate result of a handler that does not authenticate, or
\* throws before it does
NotRun == [ok |-> FALSE, status |-> 0, code |-> "not-run",
           type |-> "error", userId |-> JNull, sessionId |-> JUndefined]

\* mutant: a scheme restriction is treated as a plain `true`
requireIsStringNever(require) == FALSE

\* typeof require === "string"
requireIsString(require) == require \in {"credentials", "token"}

requireTruthy(require) == require # "false"

\* SELECT id as userId, password as hash, salt FROM users WHERE username = ?
UsersByName(username) == {u \in users : u.username = username}

\* SELECT userId FROM sessions WHERE id = ? AND expirationDate >= NOW()
\* mutant: the expiration is not looked at
LiveSessionsAny(sessionId) == {s \in sessions : s.id = SqlNumber(sessionId)}

\* mutant: the session must expire strictly after now
LiveSessionsStrict(sessionId) ==
    {s \in sessions : s.id = SqlNumber(sessionId) /\ s.expirationDate > now}

LiveSessions(sessionId) ==
    {s \in sessions : s.id = SqlNumber(sessionId) /\ s.expirationDate >= now}

authenticateBasic(hdr) ==
    LET credentials == hdr.cred
        i == IndexOf(credentials, ":")
        username == Slice(credentials, 0, i)
        password == Slice(credentials, i + 1, Len(credentials))
        results == UsersByName(username)
    IN  IF results = {}
        THEN Thrown(AuthError(401, "missing-user"))
        ELSE LET row == CHOOSE u \in results : TRUE
                 hash2 == hashPassword(password, row.salt)
             IN  IF BufferCompare(row.password, hash2) # 0
                 THEN Thrown(AuthError(401, "invalid-password"))
                 ELSE Identity("credentials", BigIntCol(row.id), JUndefined)

authenticateBearer(hdr) ==
    LET token == hdr.token
        opened == decrypt(token)
    IN  IF ~opened.ok
        THEN Thrown(opened)
        ELSE LET results == LiveSessions(opened.sessionId)
             IN  IF results = {}
                 THEN Thrown(AuthError(401, "expired-session"))
                 ELSE LET row == CHOOSE s \in results : TRUE
                      IN  Identity("token", BigIntCol(row.userId), JStr(opened.sessionId))

\* mutant: where authentication is optional a credential that fails is
\* passed over and the caller taken for anonymous
authenticateOrAnonymous(hdr, require) ==
    LET found == IF hdr.scheme = "Basic" THEN authenticateBasic(hdr)
                 ELSE IF hdr.scheme = "Bearer" THEN authenticateBearer(hdr)
                 ELSE Thrown(AuthError(401, "auth-required"))
    IN  IF found.ok \/ requireTruthy(require) THEN found
        ELSE Identity("none", JNull, JUndefined)

\* authenticate(req, db, require): require is "true" (the default), "false",
\* "credentials" or "token"
authenticate(hdr, require) ==
    IF hdr.scheme = "Basic" /\ (~requireIsString(require) \/ require = "credentials")
    THEN authenticateBasic(hdr)
    ELSE IF hdr.scheme = "Bearer" /\ (~requireIsString(require) \/ require = "token")
    THEN authenticateBearer(hdr)
    ELSE IF requireTruthy(require)
    THEN Thrown(AuthError(401, "auth-required"))
    ELSE Identity("none", JNull, JUndefined)

\* ---------------------------------------------------------- checkPermissions
roles == <<"read", "write", "owner">>

\* roles.indexOf(role): -1 when absent
RoleIndex(role) == IF \E i \in 1..Len(roles) : roles[i] = role
                   THEN (CHOOSE i \in 1..Len(roles) : roles[i] = role) - 1
                   ELSE -1

\* mutant: the comparison made strict
hasRoleStrict(role, required) == RoleIndex(role) > RoleIndex(required)

hasRole(role, required) == RoleIndex(role) >= RoleIndex(required)

\* SELECT role FROM permissions
\*   WHERE IF(? IS NOT NULL, userId = ?, userId IS NULL) AND listId = ?
\* mutant: an identified caller also matches the list's anonymous row
PermissionRowsFallback(userId, listId) ==
    {p \in permissions :
        /\ p.userId = userId \/ p.userId = NULL
        /\ p.listId = listId}

PermissionRows(userId, listId) ==
    {p \in permissions :
        /\ IF userId # NULL THEN p.userId = userId ELSE p.userId = NULL
        /\ p.listId = listId}

\* mutant: the check throws nothing
checkPermissionsPass(results, row, role) == ValidOk

\* checkPermissions(req, db, userId, listId, role), for the row the query
\* returns first: ValidOk, or the AuthError thrown
checkPermissionsWith(results, row, role) ==
    IF results = {} \/ ~hasRole(row.role, role)
    THEN AuthError(401, "insufficient-perms")
    ELSE ValidOk

\* the outcomes checkPermissions can have (one per row that may come first)
checkPermissions(userId, listId, role) ==
    LET results == PermissionRows(ToSql(userId), listId)
    IN  IF results = {}
        THEN {checkPermissionsWith(results, [role |-> "none"], role)}
        ELSE {checkPermissionsWith(results, row, role) : row \in results}

\* ------------------------------------------------------------------ route
NoRes == [none |-> TRUE]

\* route(): status defaults to 200 and success to true
RouteOk == [ok |-> TRUE, status |-> 200, code |-> "ok"]

\* a handler's `status: 201` (201 CREATED)
Created == [ok |-> TRUE, status |-> 201, code |-> "ok"]

\* the tables as the handler found them
Snapshot == [users |-> users, sessions |-> sessions, lists |-> lists,
             permissions |-> permissions, items |-> items]

\* A request and its response: the route, the Authorization header, the list
\* addressed (-1 if none), the identity authenticate resolved, what the client
\* is sent (status, code and the fields of the body) and the tables before.
Exchange(op, hdr, listId, auth, out, res) ==
    [op |-> op, hdr |-> hdr, listId |-> listId, itemId |-> -1,
     status |-> out.status, code |-> out.code,
     type |-> auth.type, userId |-> ToSql(auth.userId), res |-> res,
     pre |-> Snapshot]

\* a user or session route
Response(op, hdr, auth, out, res) == Exchange(op, hdr, -1, auth, out, res)

\* a list route, past or at its gates
ListResponse(op, hdr, g, out, res) == Exchange(op, hdr, g.listId, g.auth, out, res)

\* an item route, past or at its gates
ItemResponse(op, hdr, g, out, res) ==
    [Exchange(op, hdr, g.listId, g.auth, out, res) EXCEPT !.itemId = g.itemId]

\* no response is waiting to be sent
NoRequest == [op |-> "none", hdr |-> NoAuth, listId |-> -1, itemId |-> -1,
              status |-> 0, code |-> "none",
              type |-> "error", userId |-> NULL, res |-> NoRes,
              pre |-> [users |-> {}, sessions |-> {}, lists |-> {}, permissions |-> {},
                       items |-> {}]]

\* the server takes up its next piece of work once the response is out
Idle == last = NoRequest

\* the handler ends (returns or throws) without having written to the store
Reply(response) ==
    /\ last' = response
    /\ UNCHANGED <<store, now, pool, issued, passwordSet, items, nextItemId>>

\* a statement the store rejects for a reason of its own (connection lost,
\* lock timeout, data too long): which statement of the handler, if any
Faults == {"none", "first", "second"}

\* ------------------------------------------------------------ request bodies
Body2(k1, v1, k2, v2) == JObj(<<k1, k2>>, <<v1, v2>>)

Body1(k1, v1) == JObj(<<k1>>, <<v1>>)

EmptyBody == JObj(<<>>, <<>>)

PostUsersShape ==
    JObj(<<"firstName", "lastName", "username", "password">>,
         <<Optional(JStr(<<"J">>)), Optional(JStr(<<"D">>)),
           JStr(<<"j">>), JStr(<<"s">>)>>)

PostUsersBodies ==
    {Body2("username", JStr(u), "password", JStr(p)) : u \in Usernames, p \in Passwords}
    \cup {Body2("username", JStr(ColonName), "password", JStr(<<"p">>))}
    \cup {JUndefined,
          Body1("username", JStr(<<"a">>)),
          Body2("username", JStr(<<"a">>), "password", JStr(<<>>)),
          Body2("username", JStr(<<"a">>), "admin", JStr(<<"y">>))}

PutUsersShape ==
    JObj(<<"id", "firstName", "lastName", "password">>,
         <<Optional(JStr(<<"1">>)), Optional(JStr(<<"J">>)),
           Optional(JStr(<<"D">>)), Optional(JStr(<<"s">>))>>)

PutUsersBodies ==
    {Body1("password", JStr(p)) : p \in Passwords}
    \cup {Body2("id", JStr(<<"1">>), "password", JStr(<<"q">>)), EmptyBody, JUndefined}

\* ------------------------------------------------------------------ users
\* mutant: the session is filed under the id of the session, not of the user
NewSessionWrongUser(userId) ==
    [id |-> nextSessionId, userId |-> nextSessionId, expirationDate |-> now + TokenLifetime]

\* INSERT INTO todo.sessions(userId, expirationDate) VALUES (?, ?)
NewSession(userId) ==
    [id |-> nextSessionId, userId |-> userId, expirationDate |-> now + TokenLifetime]

\* mutant: usernames carry no unique index
DupEntryNever(username) == FALSE

\* UNIQUE(username): does INSERT INTO todo.users fail with ER_DUP_ENTRY
DupEntry(username) == UsersByName(username) # {}

\* SELECT ... FROM todo.users WHERE id = ?
UsersById(userId) == {u \in users : u.id = ToSql(userId)}

\* app.post('/users'): has the INSERT INTO todo.users succeeded
PostUsersInserts(body, fault) ==
    /\ jsonValidate(body, PostUsersShape, TRUE).ok
    /\ fault # "first"
    /\ ~DupEntry(Get(body, "username").s)

\* app.post('/users'): the response
PostUsersOut(body, nonce, fault) ==
    LET op == "POST /users"
        valid == jsonValidate(body, PostUsersShape, TRUE)
        userId == NatToStr(nextUserId)
        sessionId == NatToStr(nextSessionId)
        token == encrypt(sessionId, nonce)
    IN  IF ~valid.ok THEN Response(op, NoAuth, NotRun, valid, NoRes)
        ELSE IF fault = "first" THEN Response(op, NoAuth, NotRun, InternalError, NoRes)
        ELSE IF DupEntry(Get(body, "username").s)
        THEN Response(op, NoAuth, NotRun, ClientError(409, "username-taken"), NoRes)
        ELSE IF fault = "second" THEN Response(op, NoAuth, NotRun, InternalError, NoRes)
        ELSE Response(op, NoAuth, NotRun, Created,
                      [userId |-> JStr(userId), token |-> token,
                       expireTime |-> now + TokenLifetime])

PostUsers ==
    /\ Idle
    /\ \E body \in PostUsersBodies, salt \in Salts, nonce \in Nonces, fault \in Faults :
        LET out == PostUsersOut(body, nonce, fault)
        IN  IF ~PostUsersInserts(body, fault)
            THEN Reply(out)
            ELSE
            /\ nextUserId <= MaxUsers
            /\ nextSessionId <= MaxSessions
            /\ users' = users \cup
                    {[id |-> nextUserId, username |-> Get(body, "username").s,
                      password |-> hashPassword(Get(body, "password").s, salt),
                      salt |-> salt]}
            /\ nextUserId' = nextUserId + 1
            /\ IF fault = "second"
               THEN UNCHANGED <<sessions, nextSessionId, issued>>
               ELSE /\ sessions' = sessions \cup {NewSession(nextUserId)}
                    /\ nextSessionId' = nextSessionId + 1
                    /\ issued' = issued @@ (nextSessionId :>
                                    [userId |-> nextUserId, token |-> out.res.token,
                                     expirationDate |-> now + TokenLifetime])
            /\ passwordSet' = passwordSet @@ (nextUserId :> Get(body, "password").s)
            /\ last' = out
            /\ UNCHANGED <<lists, permissions, nextListId, now, pool, items, nextItemId>>

\* app.get('/users'): the responses it can send
GetUsersOut(hdr) ==
    LET op == "GET /users"
        auth == authenticate(hdr, "true")
        results == UsersById(auth.userId)
    IN  IF ~auth.ok THEN {Response(op, hdr, auth, auth, NoRes)}
        ELSE IF results = {} THEN {Response(op, hdr, auth, InternalError, NoRes)}
        ELSE {Response(op, hdr, auth, RouteOk,
                       [user |-> [id |-> BigIntCol(user.id), username |-> user.username]])
              : user \in results}

GetUsers ==
    /\ Idle
    /\ \E hdr \in Headers : \E out \in GetUsersOut(hdr) : Reply(out)

\* app.put('/users'): does it reach the UPDATE, and find the row
PutUsersUpdates(hdr, body) ==
    LET auth == authenticate(hdr, "true")
    IN  /\ auth.ok
        /\ jsonValidate(body, PutUsersShape, TRUE).ok
        /\ ~HasKey(body, "id")
        /\ Len(body.keys) # 0
        /\ HasKey(body, "password") => Get(body, "password").t = "string"
        /\ UsersById(auth.userId) # {}

\* app.put('/users'): the response
PutUsersOut(hdr, body) ==
    LET op == "PUT /users"
        auth == authenticate(hdr, "true")
        valid == jsonValidate(body, PutUsersShape, TRUE)
        idValue == Get(body, "id")
        id == parseIntStrict(IF idValue.t = "string" THEN idValue.s
                             ELSE <<"n", "u", "l", "l">>)
        rest == SelectSeq(body.keys, LAMBDA k : k # "id")
    IN  IF ~auth.ok THEN Response(op, hdr, auth, auth, NoRes)
        ELSE IF ~valid.ok THEN Response(op, hdr, auth, valid, NoRes)
        ELSE IF HasKey(body, "id") /\ ~(id.kind = "num" /\ StrictEq(JNum(id.v), auth.userId))
        THEN Response(op, hdr, auth, ClientErrorDefault("immutable-id"), NoRes)
        ELSE IF Len(rest) = 0 THEN Response(op, hdr, auth, RouteOk, NoRes)
        ELSE IF HasKey(body, "password") /\ Get(body, "password").t # "string"
        THEN Response(op, hdr, auth, InternalError, NoRes)
        ELSE IF UsersById(auth.userId) = {}
        THEN Response(op, hdr, auth, InternalError, NoRes)
        ELSE Response(op, hdr, auth, RouteOk, NoRes)

\* mutant: an update of the user ends the user's sessions
SessionsRevokedOnUpdate(userId) == {s \in sessions : s.userId # userId}

\* UPDATE todo.users SET ? WHERE id = ?: the sessions table after it. The
\* statement names no session, and the id the sessions refer to is not set.
SessionsAfterUpdate(userId) == sessions

PutUsers ==
    /\ Idle
    /\ \E hdr \in Headers, body \in PutUsersBodies, salt \in Salts :
        LET out == PutUsersOut(hdr, body)
            userId == authenticate(hdr, "true").userId
        IN  IF ~PutUsersUpdates(hdr, body)
            THEN Reply(out)
            ELSE
            /\ users' = {IF u.id = ToSql(userId) /\ HasKey(body, "password")
                         THEN [u EXCEPT !.password =
                                          hashPassword(Get(body, "password").s, salt),
                                        !.salt = salt]
                         ELSE u : u \in users}
            /\ passwordSet' = IF HasKey(body, "password")
                              THEN [passwordSet EXCEPT ![ToSql(userId)] =
                                                        Get(body, "password").s]
                              ELSE passwordSet
            /\ sessions' = SessionsAfterUpdate(ToSql(userId))
            /\ last' = out
            /\ UNCHANGED <<lists, permissions, nextUserId, nextSessionId,
                           nextListId, now, pool, issued, items, nextItemId>>

\* app.delete('/users'): the response
DeleteUsersOut(hdr) ==
    LET op == "DELETE /users"
        auth == authenticate(hdr, "true")
    IN  IF ~auth.ok THEN Response(op, hdr, auth, auth, NoRes)
        ELSE IF UsersById(auth.userId) = {} THEN Response(op, hdr, auth, InternalError, NoRes)
        ELSE Response(op, hdr, auth, RouteOk, NoRes)

\* DELETE FROM todo.users WHERE id = ?, with ON DELETE CASCADE to the user's
\* sessions and permission rows
DeleteUsers ==
    /\ Idle
    /\ \E hdr \in Headers :
        LET out == DeleteUsersOut(hdr)
            id == ToSql(authenticate(hdr, "true").userId)
        IN  IF out.status # 200
            THEN Reply(out)
            ELSE
            /\ users' = {u \in users : u.id # id}
            /\ sessions' = {s \in sessions : s.userId # id}
            /\ permissions' = {p \in permissions : p.userId # id}
            /\ last' = out
            /\ passwordSet' = [i \in DOMAIN passwordSet \ {id} |-> passwordSet[i]]
            /\ UNCHANGED <<lists, nextUserId, nextSessionId, nextListId, now, pool, issued,
                           items, nextItemId>>

\* ------------------------------------------------------------------- auth
\* app.post('/users/login'): the response
LoginOut(hdr, nonce, fault) ==
    LET op == "POST /users/login"
        auth == authenticate(hdr, "credentials")
        sessionId == NatToStr(nextSessionId)
        token == encrypt(sessionId, nonce)
    IN  IF ~auth.ok THEN Response(op, hdr, auth, auth, NoRes)
        ELSE IF fault = "first" THEN Response(op, hdr, auth, InternalError, NoRes)
        ELSE Response(op, hdr, auth, RouteOk,
                      [token |-> token, expireTime |-> now + TokenLifetime])

Login ==
    /\ Idle
    /\ \E hdr \in Headers, nonce \in Nonces, fault \in {"none", "first"} :
        LET out == LoginOut(hdr, nonce, fault)
        IN  IF out.status # 200
            THEN Reply(out)
            ELSE
            /\ nextSessionId <= MaxSessions
            /\ sessions' = sessions \cup {NewSession(out.userId)}
            /\ nextSessionId' = nextSessionId + 1
            /\ issued' = issued @@ (nextSessionId :>
                            [userId |-> out.userId, token |-> out.res.token,
                             expirationDate |-> now + TokenLifetime])
            /\ last' = out
            /\ UNCHANGED <<users, lists, permissions, nextUserId, nextListId, now, pool,
                           passwordSet, items, nextItemId>>

\* app.post('/users/logout'): the response
LogoutOut(hdr) ==
    LET op == "POST /users/logout"
        auth == authenticate(hdr, "false")
    IN  IF ~auth.ok THEN Response(op, hdr, auth, auth, NoRes)
        ELSE Response(op, hdr, auth, RouteOk, NoRes)

\* mutant: logging out ends every session of the session's user
SessionsOfSameUser(sessionId) ==
    {s \in sessions : \E t \in sessions : t.id = ToSql(sessionId) /\ t.userId = s.userId}

\* DELETE FROM todo.sessions WHERE id = ?: the rows it deletes
SessionsById(sessionId) == {s \in sessions : s.id = ToSql(sessionId)}

Logout ==
    /\ Idle
    /\ \E hdr \in Headers :
        LET out == LogoutOut(hdr)
            auth == authenticate(hdr, "false")
        IN  IF ~auth.ok \/ jsonType(auth.sessionId) = "null"
            THEN Reply(out)
            ELSE
            /\ sessions' = sessions \ SessionsById(auth.sessionId)
            /\ last' = out
            /\ UNCHANGED <<users, lists, permissions, nextUserId, nextSessionId,
                           nextListId, now, pool, issued, passwordSet, items, nextItemId>>

\* ------------------------------------------------------------------ lists
\* a route parameter as the SQL parameter it becomes: Infinity matches no id
SqlParam(r) == IF r.kind = "num" THEN r.v ELSE -1

\* :listId and :userId as clients send them
ListParams == {NatToStr(i) : i \in 1..(MaxLists + 1)} \cup {<<"x">>}

UserParams == {NatToStr(i) : i \in 1..(MaxUsers + 1)}

PostListsShape == JObj(<<"name">>, <<JStr(<<"G">>)>>)

PostListsBodies == {Body1("name", JStr(<<"g">>)), JUndefined}

PutListShape ==
    JObj(<<"id", "name">>, <<Optional(JStr(<<"1">>)), Optional(JStr(<<"G">>))>>)

PutListBodies ==
    {Body1("name", JStr(<<"h">>)),
     Body2("id", JStr(<<"1">>), "name", JStr(<<"h">>)),
     Body1("id", JStr(<<"2">>)),
     EmptyBody,
     Body1("title", JStr(<<"h">>))}

PutListUserShape == JObj(<<"role">>, <<JStr(<<"w">>)>>)

RoleNames == {"read", "write", "owner", "admin"}

PutListUserBodies == {Body1("role", JStr(<<r>>)) : r \in RoleNames} \cup {JUndefined}

\* the gates every list-scoped route starts with: authenticate, then
\* parseIntStrict / isNaN on the route parameter, then checkPermissions.
\* One result for each outcome checkPermissions can have.
ListGate(hdr, require, listParam, role) ==
    LET auth == authenticate(hdr, require)
        listId == parseIntStrict(listParam)
    IN  IF ~auth.ok
        THEN {[ok |-> FALSE, out |-> auth, auth |-> auth, listId |-> -1]}
        ELSE IF isNaN(listId)
        THEN {[ok |-> FALSE, out |-> ClientErrorDefault("invalid-route-param"),
               auth |-> auth, listId |-> -1]}
        ELSE {[ok |-> c.ok, out |-> c, auth |-> auth, listId |-> SqlParam(listId)] :
                c \in checkPermissions(auth.userId, SqlParam(listId), role)}

\* the same for the routes with :listId and :userId
ListUserGate(hdr, require, listParam, userParam, role) ==
    LET auth == authenticate(hdr, require)
        listId == parseIntStrict(listParam)
        targetUserId == parseIntStrict(userParam)
    IN  IF ~auth.ok
        THEN {[ok |-> FALSE, out |-> auth, auth |-> auth, listId |-> -1, targetUserId |-> -1]}
        ELSE IF isNaN(listId) \/ isNaN(targetUserId)
        THEN {[ok |-> FALSE, out |-> ClientErrorDefault("invalid-route-param"),
               auth |-> auth, listId |-> -1, targetUserId |-> -1]}
        ELSE {[ok |-> c.ok, out |-> c, auth |-> auth, listId |-> SqlParam(listId),
               targetUserId |-> SqlParam(targetUserId)] :
                c \in checkPermissions(auth.userId, SqlParam(listId), role)}

\* SELECT id, name FROM lists WHERE id in (SELECT listId FROM permissions
\*   WHERE IF(? IS NOT NULL, userId = ?, userId IS NULL))
\* mutant: GET /lists also lists what anonymous callers may see
ListsOfOrAnonymous(userId) ==
    {l \in lists : l.id \in {p.listId : p \in
        {q \in permissions : q.userId = userId \/ q.userId = NULL}}}

ListsOf(userId) ==
    {l \in lists : l.id \in {p.listId : p \in
        {q \in permissions : IF userId # NULL THEN q.userId = userId
                                              ELSE q.userId = NULL}}}

\* app.get('/lists'): the response
GetListsOut(hdr) ==
    LET op == "GET /lists"
        auth == authenticate(hdr, "false")
    IN  IF ~auth.ok THEN Response(op, hdr, auth, auth, NoRes)
        ELSE Response(op, hdr, auth, RouteOk, [lists |-> ListsOf(ToSql(auth.userId))])

GetLists ==
    /\ Idle
    /\ \E hdr \in Headers : Reply(GetListsOut(hdr))

\* app.post('/lists'): the response
PostListsOut(hdr, body, fault) ==
    LET op == "POST /lists"
        auth == authenticate(hdr, "false")
        valid == jsonValidate(body, PostListsShape, TRUE)
    IN  IF ~auth.ok THEN Response(op, hdr, auth, auth, NoRes)
        ELSE IF ~valid.ok THEN Response(op, hdr, auth, valid, NoRes)
        ELSE IF fault # "none" THEN Response(op, hdr, auth, InternalError, NoRes)
        ELSE Response(op, hdr, auth, Created, [listId |-> JStr(NatToStr(nextListId))])

\* The primary key of a new permission row, kept as what tells the rows of
\* one (userId, listId) pair apart: the first number no row of the pair has.
NextCopy(userId, listId) ==
    LET used == {p.copy : p \in {q \in permissions :
                                    q.userId = userId /\ q.listId = listId}}
    IN  CHOOSE c \in 0..Cardinality(used) : c \notin used

\* mutant: the creator is given write, not owner
OwnerRowWrite(userId, listId) ==
    [userId |-> userId, listId |-> listId, role |-> "write",
     copy |-> NextCopy(userId, listId)]

\* INSERT INTO todo.permissions(userId, listId, role) VALUES (?, ?, 'owner')
OwnerRow(userId, listId) ==
    [userId |-> userId, listId |-> listId, role |-> "owner",
     copy |-> NextCopy(userId, listId)]

\* app.post('/lists'): has the INSERT INTO todo.lists succeeded
PostListsInserts(hdr, body, fault) ==
    /\ authenticate(hdr, "false").ok
    /\ jsonValidate(body, PostListsShape, TRUE).ok
    /\ fault # "first"

PostLists ==
    /\ Idle
    /\ \E hdr \in Headers, body \in PostListsBodies, fault \in Faults :
        LET out == PostListsOut(hdr, body, fault)
        IN  IF ~PostListsInserts(hdr, body, fault)
            THEN Reply(out)
            ELSE
            /\ nextListId <= MaxLists
            /\ lists' = lists \cup {[id |-> nextListId, name |-> Get(body, "name").s]}
            /\ nextListId' = nextListId + 1
            /\ permissions' =
                    IF fault = "second" THEN permissions
                    ELSE permissions \cup {OwnerRow(out.userId, nextListId)}
            /\ last' = out
            /\ UNCHANGED <<users, sessions, nextUserId, nextSessionId, now, pool, issued, passwordSet, items, nextItemId>>

\* app.get('/lists/:listId'): the responses it can send
GetListOut(hdr, listParam) ==
    LET op == "GET /lists/:listId"
    IN  {IF ~g.ok THEN ListResponse(op, hdr, g, g.out, NoRes)
         ELSE IF {l \in lists : l.id = g.listId} = {}
         THEN ListResponse(op, hdr, g, InternalError, NoRes)
         ELSE ListResponse(op, hdr, g, RouteOk,
                       [list |-> CHOOSE l \in lists : l.id = g.listId])
         : g \in ListGate(hdr, "false", listParam, "read")}

GetList ==
    /\ Idle
    /\ \E hdr \in Headers, listParam \in ListParams :
        \E out \in GetListOut(hdr, listParam) : Reply(out)

\* app.put('/lists/:listId'): the response, past the gates
PutListBody(hdr, g, body) ==
    LET op == "PUT /lists/:listId"
        valid == jsonValidate(body, PutListShape, TRUE)
        idValue == Get(body, "id")
        id == parseIntStrict(IF idValue.t = "string" THEN idValue.s
                             ELSE <<"n", "u", "l", "l">>)
        rest == SelectSeq(body.keys, LAMBDA k : k # "id")
    IN  IF ~valid.ok THEN ListResponse(op, hdr, g, valid, NoRes)
        ELSE IF HasKey(body, "id") /\ ~(id.kind = "num" /\ id.v = g.listId)
        THEN ListResponse(op, hdr, g, ClientErrorDefault("immutable-id"), NoRes)
        ELSE IF Len(rest) = 0 THEN ListResponse(op, hdr, g, RouteOk, NoRes)
        ELSE IF {l \in lists : l.id = g.listId} = {}
        THEN ListResponse(op, hdr, g, InternalError, NoRes)
        ELSE ListResponse(op, hdr, g, RouteOk, [updated |-> TRUE])

\* app.put('/lists/:listId'): the responses it can send
PutListOut(hdr, listParam, body) ==
    {IF ~g.ok THEN ListResponse("PUT /lists/:listId", hdr, g, g.out, NoRes)
     ELSE PutListBody(hdr, g, body)
     : g \in ListGate(hdr, "false", listParam, "write")}

PutList ==
    /\ Idle
    /\ \E hdr \in Headers, listParam \in ListParams, body \in PutListBodies :
        \E g \in ListGate(hdr, "false", listParam, "write") :
            LET out == IF g.ok THEN PutListBody(hdr, g, body)
                       ELSE ListResponse("PUT /lists/:listId", hdr, g, g.out, NoRes)
            IN  IF out.res = NoRes
                THEN Reply(out)
                ELSE
                /\ lists' = {IF l.id = g.listId /\ HasKey(body, "name")
                             THEN [l EXCEPT !.name = Get(body, "name").s]
                             ELSE l : l \in lists}
                /\ last' = out
                /\ UNCHANGED <<users, sessions, permissions, nextUserId, nextSessionId,
                               nextListId, now, pool, issued, passwordSet, items, nextItemId>>

\* app.delete('/lists/:listId'): the responses it can send
DeleteListOut(hdr, listParam) ==
    LET op == "DELETE /lists/:listId"
    IN  {IF ~g.ok THEN ListResponse(op, hdr, g, g.out, NoRes)
         ELSE IF {l \in lists : l.id = g.listId} = {}
         THEN ListResponse(op, hdr, g, InternalError, NoRes)
         ELSE ListResponse(op, hdr, g, RouteOk, [deleted |-> g.listId])
         : g \in ListGate(hdr, "false", listParam, "owner")}

\* DELETE FROM todo.lists WHERE id = ?, with ON DELETE CASCADE to the list's
\* permission rows and items
DeleteList ==
    /\ Idle
    /\ \E hdr \in Headers, listParam \in ListParams :
        \E out \in DeleteListOut(hdr, listParam) :
            IF out.res = NoRes
            THEN Reply(out)
            ELSE
            /\ lists' = {l \in lists : l.id # out.res.deleted}
            /\ permissions' = {p \in permissions : p.listId # out.res.deleted}
            /\ items' = {i \in items : i.listId # out.res.deleted}
            /\ last' = out
            /\ UNCHANGED <<users, sessions, nextUserId, nextSessionId, nextListId,
                           now, pool, issued, passwordSet, nextItemId>>

\* --------------------------------------------------------------- list users
\* SELECT userId, role FROM permissions WHERE listId = ?
\* app.get('/lists/:listId/users'): the responses it can send
GetListUsersOut(hdr, listParam) ==
    LET op == "GET /lists/:listId/users"
    IN  {IF ~g.ok THEN ListResponse(op, hdr, g, g.out, NoRes)
         ELSE ListResponse(op, hdr, g, RouteOk,
                       [users |-> {[userId |-> p.userId, role |-> p.role] :
                                    p \in {q \in permissions : q.listId = g.listId}}])
         : g \in ListGate(hdr, "false", listParam, "read")}

GetListUsers ==
    /\ Idle
    /\ \E hdr \in Headers, listParam \in ListParams :
        \E out \in GetListUsersOut(hdr, listParam) : Reply(out)

\* SELECT role FROM permissions WHERE listId = ? AND userId = ?
\* app.get('/lists/:listId/users/:userId'): the responses it can send
GetListUserOut(hdr, listParam, userParam) ==
    LET op == "GET /lists/:listId/users/:userId"
    IN  {IF ~g.ok THEN ListResponse(op, hdr, g, g.out, NoRes)
         ELSE ListResponse(op, hdr, g, RouteOk,
                       [roles |-> {p.role : p \in {q \in permissions :
                            q.listId = g.listId /\ q.userId # NULL
                            /\ q.userId = g.targetUserId}}])
         : g \in ListUserGate(hdr, "false", listParam, userParam, "read")}

GetListUser ==
    /\ Idle
    /\ \E hdr \in Headers, listParam \in ListParams, userParam \in UserParams :
        \E out \in GetListUserOut(hdr, listParam, userParam) : Reply(out)

\* mutant: the permissions table carries no foreign keys
ForeignKeysIgnored(userId, listId) == TRUE

\* FOREIGN KEY(userId) REFERENCES todo.users(id) and FOREIGN KEY(listId)
\* REFERENCES todo.lists(id): may a row with these keys be inserted
ForeignKeysHold(userId, listId) ==
    /\ userId # NULL => \E u \in users : u.id = userId
    /\ \E l \in lists : l.id = listId

\* app.put('/lists/:listId/users/:userId'): the response, past the gates
PutListUserBody(hdr, g, body, fault) ==
    LET op == "PUT /lists/:listId/users/:userId"
        valid == jsonValidate(body, PutListUserShape, TRUE)
        role == Get(body, "role").s
    IN  IF ~valid.ok THEN ListResponse(op, hdr, g, valid, NoRes)
        ELSE IF role \notin {<<"owner">>, <<"write">>, <<"read">>}
        THEN ListResponse(op, hdr, g, ClientErrorDefault("invalid-role"), NoRes)
        ELSE IF fault # "none" \/ ~ForeignKeysHold(g.targetUserId, g.listId)
        THEN ListResponse(op, hdr, g, InternalError, NoRes)
        ELSE ListResponse(op, hdr, g, RouteOk, [role |-> role[1]])

\* mutant: the pair carries no unique index
DuplicateKeyNever(userId, listId) == FALSE

\* UNIQUE(userId, listId): does a row to insert collide with a row there is.
\* A NULL userId collides with nothing: in a unique index NULLs are distinct.
DuplicateKey(userId, listId) ==
    /\ userId # NULL
    /\ \E p \in permissions : p.userId = userId /\ p.listId = listId

\* mutant: INSERT IGNORE, the row there is keeps its role
UpsertIgnore(userId, listId, role) ==
    IF DuplicateKey(userId, listId) THEN permissions
    ELSE permissions \cup {[userId |-> userId, listId |-> listId, role |-> role,
                            copy |-> NextCopy(userId, listId)]}

\* INSERT INTO permissions(userId, listId, role) VALUES (?, ?, ?)
\*   ON DUPLICATE KEY UPDATE role = VALUES(role)
Upsert(userId, listId, role) ==
    IF DuplicateKey(userId, listId)
    THEN {IF p.userId = userId /\ p.listId = listId
          THEN [p EXCEPT !.role = role] ELSE p : p \in permissions}
    ELSE permissions \cup {[userId |-> userId, listId |-> listId, role |-> role,
                            copy |-> NextCopy(userId, listId)]}

PutListUser ==
    /\ Idle
    /\ \E hdr \in Headers, listParam \in ListParams, userParam \in UserParams,
          body \in PutListUserBodies, fault \in {"none", "first"} :
        \E g \in ListUserGate(hdr, "true", listParam, userParam, "owner") :
            LET out == IF g.ok THEN PutListUserBody(hdr, g, body, fault)
                       ELSE ListResponse("PUT /lists/:listId/users/:userId",
                                         hdr, g, g.out, NoRes)
            IN  IF out.res = NoRes
                THEN Reply(out)
                ELSE
                /\ permissions' = Upsert(g.targetUserId, g.listId, out.res.role)
                /\ last' = out
                /\ UNCHANGED <<users, sessions, lists, nextUserId, nextSessionId,
                               nextListId, now, pool, issued, passwordSet, items, nextItemId>>

\* app.delete('/lists/:listId/users/:userId'):
\* DELETE FROM permissions WHERE userId = ? AND listId = ?
DeleteListUser ==
    /\ Idle
    /\ \E hdr \in Headers, listParam \in ListParams, userParam \in UserParams :
        \E g \in ListUserGate(hdr, "false", listParam, userParam, "owner") :
            LET op == "DELETE /lists/:listId/users/:userId"
            IN  IF ~g.ok
                THEN Reply(ListResponse(op, hdr, g, g.out, NoRes))
                ELSE
                /\ permissions' = {p \in permissions :
                        ~(p.userId # NULL /\ p.userId = g.targetUserId
                          /\ p.listId = g.listId)}
                /\ last' = ListResponse(op, hdr, g, RouteOk, NoRes)
                /\ UNCHANGED <<users, sessions, lists, nextUserId, nextSessionId,
                               nextListId, now, pool, issued, passwordSet, items, nextItemId>>

\* --------------------------------------------------------------- list items
\* :itemId as clients send it
ItemParams == {NatToStr(i) : i \in 1..(MaxItems + 1)}

ItemStates == {<<"in-progress">>, <<"complete">>, <<"canceled">>}

PostItemsShape ==
    JObj(<<"name", "description", "state">>,
         <<JStr(<<"A">>), Optional(JStr(<<"F">>)), Optional(JStr(<<"i">>))>>)

PostItemsBodies ==
    {Body1("name", JStr(<<"i">>)),
     Body2("name", JStr(<<"i">>), "state", JStr(<<"complete">>)),
     Body2("name", JStr(<<"i">>), "state", JStr(<<"done">>)),
     JUndefined}

PutItemShape ==
    JObj(<<"id", "name", "description", "state">>,
         <<Optional(JStr(<<"1">>)), Optional(JStr(<<"A">>)),
           Optional(JStr(<<"F">>)), Optional(JStr(<<"i">>))>>)

PutItemBodies ==
    {Body1("state", JStr(<<"complete">>)),
     Body1("state", JStr(<<"done">>)),
     Body1("id", JStr(<<"1">>)),
     Body2("id", JStr(<<"1">>), "state", JStr(<<"complete">>)),
     Body2("id", JStr(<<"2">>), "state", JStr(<<"complete">>)),
     EmptyBody}

\* the gates of the routes with :listId and :itemId
ListItemGate(hdr, listParam, itemParam, role) ==
    LET auth == authenticate(hdr, "false")
        listId == parseIntStrict(listParam)
        itemId == parseIntStrict(itemParam)
    IN  IF ~auth.ok
        THEN {[ok |-> FALSE, out |-> auth, auth |-> auth, listId |-> -1, itemId |-> -1]}
        ELSE IF isNaN(listId) \/ isNaN(itemId)
        THEN {[ok |-> FALSE, out |-> ClientErrorDefault("invalid-route-param"),
               auth |-> auth, listId |-> -1, itemId |-> -1]}
        ELSE {[ok |-> c.ok, out |-> c, auth |-> auth, listId |-> SqlParam(listId),
               itemId |-> SqlParam(itemId)] :
                c \in checkPermissions(auth.userId, SqlParam(listId), role)}

\* mutant: the item queries select WHERE id = ? alone
ItemsByIdAnyList(listId, itemId) == {i \in items : i.id = itemId}

\* SELECT ... FROM todo.items WHERE listId = ? AND id = ?
ItemsById(listId, itemId) == {i \in items : i.listId = listId /\ i.id = itemId}

\* body.state != null && !['in-progress', 'complete', 'canceled'].includes(body.state)
InvalidState(body) == HasKey(body, "state") /\ Get(body, "state").s \notin ItemStates

\* app.get('/lists/:listId/items')
GetItems ==
    /\ Idle
    /\ \E hdr \in Headers, listParam \in ListParams :
        \E g \in ListGate(hdr, "false", listParam, "read") :
            LET op == "GET /lists/:listId/items"
            IN  Reply(IF ~g.ok THEN ListResponse(op, hdr, g, g.out, NoRes)
                      ELSE ListResponse(op, hdr, g, RouteOk,
                             [items |-> {i \in items : i.listId = g.listId}]))

\* app.post('/lists/:listId/items'): the response, past the gates
PostItemsBody(hdr, g, body, fault) ==
    LET op == "POST /lists/:listId/items"
        valid == jsonValidate(body, PostItemsShape, TRUE)
    IN  IF ~valid.ok THEN ListResponse(op, hdr, g, valid, NoRes)
        ELSE IF InvalidState(body)
        THEN ListResponse(op, hdr, g, ClientErrorDefault("invalid-state"), NoRes)
        ELSE IF fault # "none" \/ {l \in lists : l.id = g.listId} = {}
        THEN ListResponse(op, hdr, g, InternalError, NoRes)
        ELSE ListResponse(op, hdr, g, Created, [itemId |-> JStr(NatToStr(nextItemId))])

\* INSERT INTO todo.items SET ?: the new row
NewItem(listId, body) ==
    [id |-> nextItemId, listId |-> listId, name |-> Get(body, "name").s,
     description |-> IF HasKey(body, "description")
                     THEN Get(body, "description") ELSE JNull,
     state |-> IF HasKey(body, "state") THEN Get(body, "state").s
               ELSE <<"in-progress">>]

PostItems ==
    /\ Idle
    /\ \E hdr \in Headers, listParam \in ListParams, body \in PostItemsBodies,
          fault \in {"none", "first"} :
        \E g \in ListGate(hdr, "false", listParam, "write") :
            LET out == IF g.ok THEN PostItemsBody(hdr, g, body, fault)
                       ELSE ListResponse("POST /lists/:listId/items", hdr, g, g.out, NoRes)
            IN  IF out.res = NoRes
                THEN Reply(out)
                ELSE
                /\ nextItemId <= MaxItems
                /\ items' = items \cup {NewItem(g.listId, body)}
                /\ nextItemId' = nextItemId + 1
                /\ last' = out
                /\ UNCHANGED <<store, now, pool, issued, passwordSet>>

\* app.get('/lists/:listId/items/:itemId')
GetItem ==
    /\ Idle
    /\ \E hdr \in Headers, listParam \in ListParams, itemParam \in ItemParams :
        \E g \in ListItemGate(hdr, listParam, itemParam, "read") :
            LET op == "GET /lists/:listId/items/:itemId"
                results == ItemsById(g.listId, g.itemId)
            IN  Reply(IF ~g.ok THEN ItemResponse(op, hdr, g, g.out, NoRes)
                      ELSE IF results = {}
                      THEN ItemResponse(op, hdr, g, ClientErrorDefault("missing-item"), NoRes)
                      ELSE ItemResponse(op, hdr, g, RouteOk,
                                        [item |-> CHOOSE i \in results : TRUE]))

\* app.put('/lists/:listId/items/:itemId'): the response, past the gates
PutItemBody(hdr, g, body) ==
    LET op == "PUT /lists/:listId/items/:itemId"
        valid == jsonValidate(body, PutItemShape, TRUE)
        idValue == Get(body, "id")
        id == parseIntStrict(IF idValue.t = "string" THEN idValue.s
                             ELSE <<"n", "u", "l", "l">>)
        rest == SelectSeq(body.keys, LAMBDA k : k # "id")
    IN  IF ~valid.ok THEN ItemResponse(op, hdr, g, valid, NoRes)
        ELSE IF HasKey(body, "id") /\ ~(id.kind = "num" /\ id.v = g.itemId)
        THEN ItemResponse(op, hdr, g, ClientErrorDefault("immutable-id"), NoRes)
        ELSE IF Len(rest) = 0 THEN ItemResponse(op, hdr, g, RouteOk, NoRes)
        ELSE IF InvalidState(body)
        THEN ItemResponse(op, hdr, g, ClientErrorDefault("invalid-state"), NoRes)
        ELSE IF ItemsById(g.listId, g.itemId) = {}
        THEN ItemResponse(op, hdr, g, ClientErrorDefault("missing-item"), NoRes)
        ELSE ItemResponse(op, hdr, g, RouteOk, [updated |-> TRUE])

\* app.put('/lists/:listId/items/:itemId'): the responses it can send
PutItemOut(hdr, listParam, itemParam, body) ==
    {IF ~g.ok THEN ItemResponse("PUT /lists/:listId/items/:itemId", hdr, g, g.out, NoRes)
     ELSE PutItemBody(hdr, g, body)
     : g \in ListItemGate(hdr, listParam, itemParam, "write")}

\* UPDATE todo.items SET ? WHERE listId = ? AND id = ?
UpdateItem(i, body) ==
    [i EXCEPT !.name = IF HasKey(body, "name") THEN Get(body, "name").s ELSE @,
              !.description = IF HasKey(body, "description")
                              THEN Get(body, "description") ELSE @,
              !.state = IF HasKey(body, "state") THEN Get(body, "state").s ELSE @]

PutItem ==
    /\ Idle
    /\ \E hdr \in Headers, listParam \in ListParams, itemParam \in ItemParams,
          body \in PutItemBodies :
        \E g \in ListItemGate(hdr, listParam, itemParam, "write") :
            LET out == IF g.ok THEN PutItemBody(hdr, g, body)
                       ELSE ItemResponse("PUT /lists/:listId/items/:itemId",
                                         hdr, g, g.out, NoRes)
            IN  IF out.res = NoRes
                THEN Reply(out)
                ELSE
                /\ items' = {IF i \in ItemsById(g.listId, g.itemId)
                             THEN UpdateItem(i, body) ELSE i : i \in items}
                /\ last' = out
                /\ UNCHANGED <<store, now, pool, issued, passwordSet, nextItemId>>

\* app.delete('/lists/:listId/items/:itemId'):
\* DELETE FROM todo.items WHERE listId = ? AND id = ?
DeleteItem ==
    /\ Idle
    /\ \E hdr \in Headers, listParam \in ListParams, itemParam \in ItemParams :
        \E g \in ListItemGate(hdr, listParam, itemParam, "write") :
            LET op == "DELETE /lists/:listId/items/:itemId"
            IN  IF ~g.ok
                THEN Reply(ItemResponse(op, hdr, g, g.out, NoRes))
                ELSE IF ItemsById(g.listId, g.itemId) = {}
                THEN Reply(ItemResponse(op, hdr, g, ClientErrorDefault("missing-item"),
                                        NoRes))
                ELSE
                /\ items' = items \ ItemsById(g.listId, g.itemId)
                /\ last' = ItemResponse(op, hdr, g, RouteOk, NoRes)
                /\ UNCHANGED <<store, now, pool, issued, passwordSet, nextItemId>>

\* ------------------------------------------------------------------ clock
Tick ==
    /\ Idle
    /\ now < MaxTime
    /\ now' = now + 1
    /\ UNCHANGED <<store, issued, passwordSet, items, nextItemId, last, pool>>

\* mutant: purge deletes WHERE expirationDate <= NOW()
UnexpiredSessionsAfterNow == {s \in sessions : s.expirationDate > now}

\* DELETE FROM todo.sessions WHERE expirationDate < NOW(): the rows it leaves
UnexpiredSessions == {s \in sessions : ~(s.expirationDate < now)}

\* mutant: a list is in use only if a user holds a row on it
ListsInUseByUsers == {l \in lists : l.id \in {p.listId : p \in
                        {q \in permissions : q.userId # NULL}}}

\* DELETE FROM todo.lists WHERE id NOT IN (SELECT DISTINCT listId FROM
\* todo.permissions): the rows it leaves
ListsInUse == {l \in lists : l.id \in {p.listId : p \in permissions}}

\* purge(): both statements, with ON DELETE CASCADE from the lists to their
\* items; purge runs on a timer and answers no request
Purge ==
    /\ Idle
    /\ sessions' = UnexpiredSessions
    /\ lists' = ListsInUse
    /\ items' = {i \in items : i.listId \in {l.id : l \in ListsInUse}}
    /\ UNCHANGED <<users, permissions, nextUserId, nextSessionId, nextListId, now, pool,
                   issued, passwordSet, nextItemId, last>>

\* ------------------------------------------------------ connection pool
\* the requests route() is followed through at a time
MaxRequests == 2

RequestSlots == 1..MaxRequests

\* where a call of route()'s wrapper, or of purge(), stands, with the error
\* its handler threw and the connections it has acquired and released
Flow(pc, err, acquired, released) ==
    [pc |-> pc, err |-> err, acquired |-> acquired, released |-> released]

NotStarted == Flow("idle", "none", 0, 0)

\* nothing checked out, no request and no purge under way
NoConnections ==
    [out |-> 0, req |-> [r \in RequestSlots |-> NotStarted], purge |-> NotStarted]

\* what a handler can end with: a return, a ClientError, any other error
Outcomes == {"none", "client", "internal"}

\* mutant: the release sits in the try block, after the response is sent
AfterHandlerNoFinally(err) == IF err = "none" THEN "send" ELSE "next"

\* route(): after `await func(req, res, conn)` the try block goes on to
\* res.status(status).send(body); a throw leaves it for the finally block
AfterHandler(err) == IF err = "none" THEN "send" ELSE "finally"

\* route(): let conn = await database.getConnection()
RouteGetConnection ==
    /\ \E r \in RequestSlots :
        /\ pool.req[r].pc = "idle"
        /\ pool' = [pool EXCEPT !.out = @ + 1,
                                !.req[r] = Flow("func", "none", 1, 0)]
    /\ UNCHANGED <<store, now, issued, passwordSet, items, nextItemId, last>>

\* route(): await func(req, res, conn) returns or throws
RouteHandler ==
    /\ \E r \in RequestSlots, err \in Outcomes :
        /\ pool.req[r].pc = "func"
        /\ pool' = [pool EXCEPT !.req[r].pc = AfterHandler(err), !.req[r].err = err]
    /\ UNCHANGED <<store, now, issued, passwordSet, items, nextItemId, last>>

\* route(): res.status(status).send(body), then on to the finally block
RouteSend ==
    /\ \E r \in RequestSlots :
        /\ pool.req[r].pc = "send"
        /\ pool' = [pool EXCEPT !.req[r].pc = "finally"]
    /\ UNCHANGED <<store, now, issued, passwordSet, items, nextItemId, last>>

\* route(): finally { await database.releaseConnection(conn) }
RouteRelease ==
    /\ \E r \in RequestSlots :
        /\ pool.req[r].pc = "finally"
        /\ pool' = [pool EXCEPT !.out = @ - 1,
                                !.req[r].pc = "next",
                                !.req[r].released = @ + 1]
    /\ UNCHANGED <<store, now, issued, passwordSet, items, nextItemId, last>>

\* route(): next() or next(err); the wrapper is done with the request
RouteNext ==
    /\ \E r \in RequestSlots :
        /\ pool.req[r].pc = "next"
        /\ pool' = [pool EXCEPT !.req[r] = NotStarted]
    /\ UNCHANGED <<store, now, issued, passwordSet, items, nextItemId, last>>

\* purge(): let db = await getConnection()
PurgeGetConnection ==
    /\ pool.purge.pc = "idle"
    /\ pool' = [pool EXCEPT !.out = @ + 1, !.purge = Flow("sessions", "none", 1, 0)]
    /\ UNCHANGED <<store, now, issued, passwordSet, items, nextItemId, last>>

\* purge(): DELETE FROM todo.sessions ..., which may throw
PurgeDeleteSessions ==
    /\ pool.purge.pc = "sessions"
    /\ \E err \in {"none", "internal"} :
        IF err = "none"
        THEN /\ sessions' = UnexpiredSessions
             /\ pool' = [pool EXCEPT !.purge.pc = "lists"]
        ELSE /\ sessions' = sessions
             /\ pool' = [pool EXCEPT !.purge.pc = "finally", !.purge.err = err]
    /\ UNCHANGED <<users, lists, permissions, nextUserId, nextSessionId, nextListId,
                   now, issued, passwordSet, items, nextItemId, last>>

\* purge(): DELETE FROM todo.lists ..., which may throw
PurgeDeleteLists ==
    /\ pool.purge.pc = "lists"
    /\ \E err \in {"none", "internal"} :
        /\ lists' = IF err = "none" THEN ListsInUse ELSE lists
        /\ items' = IF err = "none"
                    THEN {i \in items : i.listId \in {l.id : l \in ListsInUse}}
                    ELSE items
        /\ pool' = [pool EXCEPT !.purge.pc = "finally", !.purge.err = err]
    /\ UNCHANGED <<users, sessions, permissions, nextUserId, nextSessionId, nextListId,
                   now, issued, passwordSet, nextItemId, last>>

\* purge(): finally { await releaseConnection(db) }
PurgeRelease ==
    /\ pool.purge.pc = "finally"
    /\ pool' = [pool EXCEPT !.out = @ - 1,
                            !.purge.pc = "next",
                            !.purge.released = @ + 1]
    /\ UNCHANGED <<store, now, issued, passwordSet, items, nextItemId, last>>

\* purge() has returned, or its rejection has gone to console.error
PurgeEnds ==
    /\ pool.purge.pc = "next"
    /\ pool' = [pool EXCEPT !.purge = NotStarted]
    /\ UNCHANGED <<store, now, issued, passwordSet, items, nextItemId, last>>

\* ------------------------------------------------- jsonValidate by itself
\* true and false
JBool == JValue("boolean", <<>>, 1, <<>>, <<>>)

\* the values a slot is tried with
Leaves == {JNull, JStr(<<>>), JStr(<<"x">>), JNum(1), JBool}

\* the longest array tried
MaxLen == 3

\* arrays of strings and numbers, the empty string among them
Arrays ==
    {JArr(a) : a \in UNION {[1..n -> {JStr(<<"x">>), JStr(<<>>), JNum(1)}] : n \in 0..MaxLen}}

\* objects over the keys a and b, in either order, with and without a key c
Objects ==
    {JObj(<<>>, <<>>)}
    \cup {JObj(<<k>>, <<v>>) : k \in {"a", "b", "c"}, v \in Leaves}
    \cup {JObj(ks, <<v, w>>) : ks \in {<<"a", "b">>, <<"b", "a">>, <<"a", "c">>},
                               v \in Leaves, w \in Leaves}
    \cup {JObj(<<"a">>, <<JObj(<<"b">>, <<v>>)>>) : v \in Leaves}
    \cup {JObj(<<"a">>, <<JArr(<<v>>)>>) : v \in Leaves}

\* the values jsonValidate is called with
ValidateActuals == Leaves \cup {JUndefined} \cup Arrays \cup Objects

\* the shapes jsonValidate is called with
ValidateShapes ==
    {JStr(<<"s">>), JNum(7), JBool, JNull,
     Optional(JStr(<<"s">>)),
     JArr(<<>>), JArr(<<JStr(<<"s">>)>>), JArr(<<JStr(<<"s">>), JNum(7)>>),
     JArr(<<Optional(JStr(<<"s">>))>>),
     JObj(<<>>, <<>>),
     JObj(<<"a">>, <<JStr(<<"s">>)>>),
     JObj(<<"a">>, <<Optional(JNum(7))>>),
     JObj(<<"a", "b">>, <<JStr(<<"s">>), JNum(7)>>),
     JObj(<<"a", "b">>, <<JStr(<<"s">>), Optional(JStr(<<"s">>))>>),
     JObj(<<"a">>, <<JObj(<<"b">>, <<JStr(<<"s">>)>>)>>),
     JObj(<<"a">>, <<JArr(<<JNum(7)>>)>>)}

\* a call of jsonValidate(actual, expected) and how it ended: `return actual`
\* or the ClientError thrown
Validate ==
    /\ Idle
    /\ \E actual \in ValidateActuals, expected \in ValidateShapes :
        LET r == jsonValidate(actual, expected, TRUE)
        IN  last' = [NoRequest EXCEPT
                        !.op = "jsonValidate",
                        !.status = r.status,
                        !.code = r.code,
                        !.res = [actual |-> actual, expected |-> expected,
                                 returned |-> IF r.ok THEN actual ELSE JUndefined]]
    /\ UNCHANGED <<store, now, pool, issued, passwordSet, items, nextItemId>>

\* ------------------------------------------- encrypt and decrypt by themselves
\* the largest iv crypto.randomBytes(ivSize) is let draw here
MaxIv == 2

\* the longest sessionId sealed
MaxIdLen == 3

\* the sessionIds sealed: the decimal strings `${results.insertId}` yields and
\* strings holding the quote the serialized text delimits them with
SealedIds ==
    UNION {[1..n -> {"1", "2", "'"}] : n \in 1..MaxIdLen}

\* encrypt({sessionId}) with the iv drawn
Seal ==
    /\ Idle
    /\ \E sessionId \in SealedIds, nonce \in 0..MaxIv :
        last' = [NoRequest EXCEPT
                    !.op = "encrypt",
                    !.code = "ok",
                    !.res = [sessionId |-> sessionId, nonce |-> nonce,
                             token |-> encrypt(sessionId, nonce),
                             opened |-> <<>>]]
    /\ UNCHANGED <<store, now, pool, issued, passwordSet, items, nextItemId>>

\* what a client can turn one character of the text into: another iv block,
\* another tag block, another ciphertext character, other spare bits
Flips(e) ==
    IF e[1] = "iv" THEN {<<"iv", m>> : m \in (0..(MaxIv + 1)) \ {e[2]}}
    ELSE IF e[1] = "t" THEN {<<"t", <<"iv", m>>, e[3]>> : m \in (0..(MaxIv + 1)) \ {e[2][2]}}
    ELSE IF e[1] = "c" THEN {<<"c", e[2], e[3], ch>> : ch \in {"1", "2", "'", "}"} \ {e[4]}}
    ELSE {Spare(1)} \ {e}

\* the texts a client can make of a sealed token: one character changed, or
\* the text cut short
BadTokens(token) ==
    UNION {{[token EXCEPT ![i] = f] : f \in Flips(token[i])} : i \in 1..Len(token)}
    \cup {SubSeq(token, 1, k) : k \in 0..(Len(FromBase64(token)) - 1)}

\* a client alters the token it was given
Corrupt ==
    /\ last.op = "encrypt"
    /\ \E bad \in BadTokens(last.res.token) :
        last' = [last EXCEPT !.op = "corrupt", !.res.token = bad]
    /\ UNCHANGED <<store, now, pool, issued, passwordSet, items, nextItemId>>

\* decrypt(token) of the token just sealed, or of what a client made of it
Open ==
    /\ last.op \in {"encrypt", "corrupt"}
    /\ LET r == decrypt(last.res.token)
       IN  last' = [last EXCEPT
                        !.op = "decrypt",
                        !.status = IF r.ok THEN 0 ELSE r.status,
                        !.code = IF r.ok THEN "ok" ELSE r.code,
                        !.res.opened = IF r.ok THEN r.sessionId ELSE <<>>]
    /\ UNCHANGED <<store, now, pool, issued, passwordSet, items, nextItemId>>

\* ------------------------------------------- purge beside POST /lists
\* app.post('/lists') awaits its two INSERTs one after the other on a
\* connection in autocommit mode, and purge() awaits its two DELETEs on a
\* connection of its own: the four statements interleave.

\* the handler has run its first INSERT and not yet its second
InFlight == last.code = "pending"

\* app.post('/lists') up to and including INSERT INTO todo.lists SET ?
PostListsInsertList ==
    /\ Idle
    /\ \E hdr \in Headers, body \in PostListsBodies :
        LET out == PostListsOut(hdr, body, "none")
        IN  IF ~PostListsInserts(hdr, body, "none")
            THEN Reply(out)
            ELSE
            /\ nextListId <= MaxLists
            /\ lists' = lists \cup {[id |-> nextListId, name |-> Get(body, "name").s]}
            /\ nextListId' = nextListId + 1
            /\ last' = [out EXCEPT !.status = 0, !.code = "pending"]
            /\ UNCHANGED <<users, sessions, permissions, nextUserId, nextSessionId, now, pool,
                           issued, passwordSet, items, nextItemId>>

\* the list whose row the handler in flight has inserted
InFlightList == StrToNat(last.res.listId.s)

\* app.post('/lists') from INSERT INTO todo.permissions on: the row goes in
\* and the handler returns 201, or the foreign keys refuse it and the error
\* handler answers 500
PostListsInsertPermission ==
    /\ InFlight
    /\ IF ForeignKeysHold(last.userId, InFlightList)
       THEN /\ permissions' = permissions \cup {OwnerRow(last.userId, InFlightList)}
            /\ last' = [last EXCEPT !.status = Created.status, !.code = Created.code]
       ELSE /\ permissions' = permissions
            /\ last' = [last EXCEPT !.status = InternalError.status,
                                    !.code = InternalError.code, !.res = NoRes]
    /\ UNCHANGED <<users, sessions, lists, nextUserId, nextSessionId, nextListId, now, pool,
                   issued, passwordSet, items, nextItemId>>

\* purge(): DELETE FROM todo.sessions WHERE expirationDate < NOW()
PurgeSessions ==
    /\ Idle \/ InFlight
    /\ sessions' = UnexpiredSessions
    /\ UNCHANGED <<users, lists, permissions, nextUserId, nextSessionId, nextListId,
                   now, pool, issued, passwordSet, items, nextItemId, last>>

\* purge(): DELETE FROM todo.lists WHERE id NOT IN (SELECT DISTINCT listId
\* FROM todo.permissions)
PurgeLists ==
    /\ Idle \/ InFlight
    /\ lists' = ListsInUse
    /\ items' = {i \in items : i.listId \in {l.id : l \in ListsInUse}}
    /\ UNCHANGED <<users, sessions, permissions, nextUserId, nextSessionId, nextListId,
                   now, pool, issued, passwordSet, nextItemId, last>>

\* --------------------------------------- requests beside one another
\* A handler awaits checkPermissions and then its mutating statement, on a
\* connection in autocommit mode and with no lock taken: the statements of
\* another request can run between the two. Here one request is followed
\* statement by statement while others are served whole in between.

\* the handler has passed checkPermissions and not yet run its statement
Checked == last.code = "checked"

\* the exchange of a handler that is past its gates
PastGates(op, hdr, g, res) ==
    [ListResponse(op, hdr, g, RouteOk, res) EXCEPT !.status = 0, !.code = "checked"]

\* the handler returns
Returns == [last EXCEPT !.status = RouteOk.status, !.code = RouteOk.code]

\* the handler throws what is not a ClientError
Throws == [last EXCEPT !.status = InternalError.status, !.code = InternalError.code]

\* app.put('/lists/:listId/users/:userId') up to its INSERT
PutListUserCheck ==
    /\ Idle
    /\ \E hdr \in Headers, listParam \in ListParams, userParam \in UserParams,
          body \in PutListUserBodies :
        \E g \in ListUserGate(hdr, "true", listParam, userParam, "owner") :
            LET op == "PUT /lists/:listId/users/:userId"
                valid == jsonValidate(body, PutListUserShape, TRUE)
                role == Get(body, "role").s
            IN  IF ~g.ok THEN Reply(ListResponse(op, hdr, g, g.out, NoRes))
                ELSE IF ~valid.ok THEN Reply(ListResponse(op, hdr, g, valid, NoRes))
                ELSE IF role \notin {<<"owner">>, <<"write">>, <<"read">>}
                THEN Reply(ListResponse(op, hdr, g, ClientErrorDefault("invalid-role"), NoRes))
                ELSE /\ last' = PastGates(op, hdr, g,
                                    [targetUserId |-> g.targetUserId, role |-> role[1]])
                     /\ UNCHANGED <<store, now, pool, issued, passwordSet, items, nextItemId>>

\* its INSERT ... ON DUPLICATE KEY UPDATE
PutListUserAct ==
    /\ Checked
    /\ last.op = "PUT /lists/:listId/users/:userId"
    /\ IF ForeignKeysHold(last.res.targetUserId, last.listId)
       THEN /\ permissions' = Upsert(last.res.targetUserId, last.listId, last.res.role)
            /\ last' = Returns
       ELSE /\ permissions' = permissions
            /\ last' = Throws
    /\ UNCHANGED <<users, sessions, lists, nextUserId, nextSessionId, nextListId, now, pool,
                   issued, passwordSet, items, nextItemId>>

\* app.delete('/lists/:listId/users/:userId') up to its DELETE
DeleteListUserCheck ==
    /\ Idle
    /\ \E hdr \in Headers, listParam \in ListParams, userParam \in UserParams :
        \E g \in ListUserGate(hdr, "false", listParam, userParam, "owner") :
            LET op == "DELETE /lists/:listId/users/:userId"
            IN  IF ~g.ok THEN Reply(ListResponse(op, hdr, g, g.out, NoRes))
                ELSE /\ last' = PastGates(op, hdr, g,
                                    [targetUserId |-> g.targetUserId, role |-> "none"])
                     /\ UNCHANGED <<store, now, pool, issued, passwordSet, items, nextItemId>>

\* its DELETE FROM todo.permissions WHERE userId = ? AND listId = ?
DeleteListUserAct ==
    /\ Checked
    /\ last.op = "DELETE /lists/:listId/users/:userId"
    /\ permissions' = {p \in permissions :
            ~(p.userId # NULL /\ p.userId = last.res.targetUserId
              /\ p.listId = last.listId)}
    /\ last' = Returns
    /\ UNCHANGED <<users, sessions, lists, nextUserId, nextSessionId, nextListId, now, pool,
                   issued, passwordSet, items, nextItemId>>

\* app.delete('/lists/:listId') up to its DELETE
DeleteListCheck ==
    /\ Idle
    /\ \E hdr \in Headers, listParam \in ListParams :
        \E g \in ListGate(hdr, "false", listParam, "owner") :
            LET op == "DELETE /lists/:listId"
            IN  IF ~g.ok THEN Reply(ListResponse(op, hdr, g, g.out, NoRes))
                ELSE /\ last' = PastGates(op, hdr, g,
                                    [targetUserId |-> NULL, role |-> "none"])
                     /\ UNCHANGED <<store, now, pool, issued, passwordSet, items, nextItemId>>

\* its DELETE FROM todo.lists WHERE id = ?, with the cascade
DeleteListAct ==
    /\ Checked
    /\ last.op = "DELETE /lists/:listId"
    /\ lists' = {l \in lists : l.id # last.listId}
    /\ permissions' = {p \in permissions : p.listId # last.listId}
    /\ items' = {i \in items : i.listId # last.listId}
    /\ last' = IF lists' = lists THEN Throws ELSE Returns
    /\ UNCHANGED <<users, sessions, nextUserId, nextSessionId, nextListId, now, pool,
                   issued, passwordSet, nextItemId>>

\* another client's grant or revoke, served from its gates to its statement
\* while the first handler is between its own
ServedMeanwhile ==
    /\ Checked
    /\ \E hdr \in Headers, listParam \in ListParams, userParam \in UserParams :
        \/ \E body \in PutListUserBodies :
            \E g \in ListUserGate(hdr, "true", listParam, userParam, "owner") :
                /\ g.ok
                /\ PutListUserBody(hdr, g, body, "none").res # NoRes
                /\ permissions' = Upsert(g.targetUserId, g.listId,
                                          PutListUserBody(hdr, g, body, "none").res.role)
        \/ \E g \in ListUserGate(hdr, "false", listParam, userParam, "owner") :
                /\ g.ok
                /\ permissions' = {p \in permissions :
                        ~(p.userId # NULL /\ p.userId = g.targetUserId
                          /\ p.listId = g.listId)}
    /\ UNCHANGED <<users, sessions, lists, nextUserId, nextSessionId, nextListId, now, pool,
                   issued, passwordSet, items, nextItemId, last>>

\* route() and the error handler: res.status(status).send(body)
Respond ==
    /\ ~Idle
    /\ ~InFlight
    /\ ~Checked
    /\ last' = NoRequest
    /\ UNCHANGED <<store, now, pool, issued, passwordSet, items, nextItemId>>

\* ------------------------------------------------------------------- spec
Init ==
    /\ users = {}
    /\ sessions = {}
    /\ lists = {}
    /\ permissions = {}
    /\ nextUserId = 1
    /\ nextSessionId = 1
    /\ nextListId = 1
    /\ now = 0
    /\ issued = <<>>
    /\ passwordSet = <<>>
    /\ items = {}
    /\ nextItemId = 1
    /\ last = NoRequest
    /\ pool = NoConnections

\* the user and session routes
NextUsers ==
    \/ PostUsers
    \/ GetUsers
    \/ PutUsers
    \/ DeleteUsers
    \/ Login
    \/ Logout
    \/ Tick
    \/ Purge
    \/ Respond

\* the list and permission routes
NextLists ==
    \/ GetLists
    \/ PostLists
    \/ GetList
    \/ PutList
    \/ DeleteList
    \/ GetListUsers
    \/ GetListUser
    \/ PutListUser
    \/ DeleteListUser
    \/ GetItems
    \/ PostItems
    \/ GetItem
    \/ PutItem
    \/ DeleteItem
    \/ DeleteUsers
    \/ Purge
    \/ Respond

\* users, sessions and authentication, from the empty store
SpecUsers == Init /\ [][NextUsers]_vars

\* the store once the users a and b have registered
InitLists ==
    /\ users = {[id |-> 1, username |-> <<"a">>,
                 password |-> hashPassword(<<"p">>, 0), salt |-> 0],
                [id |-> 2, username |-> <<"b">>,
                 password |-> hashPassword(<<"q">>, 0), salt |-> 0]}
    /\ sessions = {[id |-> 1, userId |-> 1, expirationDate |-> TokenLifetime],
                   [id |-> 2, userId |-> 2, expirationDate |-> TokenLifetime]}
    /\ lists = {}
    /\ permissions = {}
    /\ nextUserId = 3
    /\ nextSessionId = 3
    /\ nextListId = 1
    /\ now = 0
    /\ issued = (1 :> [userId |-> 1, token |-> encrypt(<<"1">>, 0),
                        expirationDate |-> TokenLifetime])
                @@ (2 :> [userId |-> 2, token |-> encrypt(<<"2">>, 0),
                          expirationDate |-> TokenLifetime])
    /\ passwordSet = (1 :> <<"p">>) @@ (2 :> <<"q">>)
    /\ items = {}
    /\ nextItemId = 1
    /\ last = NoRequest
    /\ pool = NoConnections

\* the store once a has write on list 1 (shared with anonymous readers),
\* b owns list 2, and each list holds one item
InitItems ==
    /\ users = {[id |-> 1, username |-> <<"a">>,
                 password |-> hashPassword(<<"p">>, 0), salt |-> 0],
                [id |-> 2, username |-> <<"b">>,
                 password |-> hashPassword(<<"q">>, 0), salt |-> 0]}
    /\ sessions = {[id |-> 1, userId |-> 1, expirationDate |-> TokenLifetime],
                   [id |-> 2, userId |-> 2, expirationDate |-> TokenLifetime]}
    /\ lists = {[id |-> 1, name |-> <<"g">>], [id |-> 2, name |-> <<"g">>]}
    /\ permissions = {[userId |-> 1, listId |-> 1, role |-> "write", copy |-> 0],
                      [userId |-> NULL, listId |-> 1, role |-> "read", copy |-> 0],
                      [userId |-> 2, listId |-> 2, role |-> "owner", copy |-> 0]}
    /\ nextUserId = 3
    /\ nextSessionId = 3
    /\ nextListId = 3
    /\ now = 0
    /\ issued = (1 :> [userId |-> 1, token |-> encrypt(<<"1">>, 0),
                        expirationDate |-> TokenLifetime])
                @@ (2 :> [userId |-> 2, token |-> encrypt(<<"2">>, 0),
                          expirationDate |-> TokenLifetime])
    /\ passwordSet = (1 :> <<"p">>) @@ (2 :> <<"q">>)
    /\ items = {[id |-> 1, listId |-> 1, name |-> <<"i">>, description |-> JNull,
                 state |-> <<"in-progress">>],
                [id |-> 2, listId |-> 2, name |-> <<"i">>, description |-> JNull,
                 state |-> <<"in-progress">>]}
    /\ nextItemId = 3
    /\ last = NoRequest
    /\ pool = NoConnections

\* the item routes, and the grants of list 2's owner
NextItems ==
    \/ GetItems
    \/ GetItem
    \/ PutItem
    \/ DeleteItem
    \/ PutListUser
    \/ Respond

\* items of two lists, addressed through either list
SpecItems == InitItems /\ [][NextItems]_vars

\* what is done to a user and to the sessions they hold
NextSessions ==
    \/ PutUsers
    \/ Logout
    \/ DeleteUsers
    \/ Tick
    \/ Purge
    \/ Respond

\* the two registered users, each with a session, from then on
SpecSessions == InitLists /\ [][NextSessions]_vars

\* lists and permissions, for the two registered users and anonymous callers
SpecLists == InitLists /\ [][NextLists]_vars

\* the requests that make rows for purge() to reclaim, the clock and purge()
NextPurge ==
    \/ Login
    \/ PostLists
    \/ PostItems
    \/ DeleteListUser
    \/ Tick
    \/ Purge
    \/ Respond

\* the store once the user a has registered
InitPurge ==
    /\ users = {[id |-> 1, username |-> <<"a">>,
                 password |-> hashPassword(<<"p">>, 0), salt |-> 0]}
    /\ sessions = {[id |-> 1, userId |-> 1, expirationDate |-> TokenLifetime]}
    /\ lists = {}
    /\ permissions = {}
    /\ nextUserId = 2
    /\ nextSessionId = 2
    /\ nextListId = 1
    /\ now = 0
    /\ issued = (1 :> [userId |-> 1, token |-> encrypt(<<"1">>, 0),
                        expirationDate |-> TokenLifetime])
    /\ passwordSet = (1 :> <<"p">>)
    /\ items = {}
    /\ nextItemId = 1
    /\ last = NoRequest
    /\ pool = NoConnections

\* purge() running between the requests of one registered user and of
\* anonymous callers
SpecPurge == InitPurge /\ [][NextPurge]_vars

\* POST /lists and purge() statement by statement, beside requests that
\* run between them
NextRace ==
    \/ PostListsInsertList
    \/ PostListsInsertPermission
    \/ PurgeSessions
    \/ PurgeLists
    \/ GetLists
    \/ PostItems
    \/ DeleteListUser
    \/ Tick
    \/ Respond

\* purge() concurrent with list creation, for the two registered users and
\* anonymous callers
SpecRace == InitLists /\ [][NextRace]_vars

\* calls of jsonValidate, one at a time
NextValidate ==
    \/ Validate
    \/ Respond

\* jsonValidate over the values and shapes above
SpecValidate == Init /\ [][NextValidate]_vars

\* a token sealed, then opened
NextCipher ==
    \/ Seal
    \/ Open
    \/ Respond

\* encrypt and decrypt over the sessionIds and ivs above
SpecCipher == Init /\ [][NextCipher]_vars

\* a token sealed, altered, then opened
NextForge ==
    \/ Seal
    \/ Corrupt
    \/ Open
    \/ Respond

\* decrypt over sealed tokens and what a client can make of them
SpecForge == Init /\ [][NextForge]_vars

\* grants, revokes and list deletions statement by statement, beside the
\* grants and revokes of other clients
NextCheckAct ==
    \/ PostLists
    \/ PutListUserCheck
    \/ PutListUserAct
    \/ DeleteListUserCheck
    \/ DeleteListUserAct
    \/ DeleteListCheck
    \/ DeleteListAct
    \/ ServedMeanwhile
    \/ Respond

\* concurrent permission changes, for the two registered users and anonymous
\* callers
SpecCheckAct == InitLists /\ [][NextCheckAct]_vars

\* route() around any handler, twice over, and purge(), step by step
NextPool ==
    \/ RouteGetConnection
    \/ RouteHandler
    \/ RouteSend
    \/ RouteRelease
    \/ RouteNext
    \/ PurgeGetConnection
    \/ PurgeDeleteSessions
    \/ PurgeDeleteLists
    \/ PurgeRelease
    \/ PurgeEnds

\* the pool's connections under concurrent requests and purge
SpecPool == Init /\ [][NextPool]_vars

Next == NextUsers \/ NextLists

Spec == Init /\ [][Next]_vars

\* ================================================================== claims
\* the rank of a role under read < write < owner
Rank(role) == CASE role = "read" -> 0 [] role = "write" -> 1 [] role = "owner" -> 2

RoleSet == {"read", "write", "owner"}

\* the identities authenticate can resolve: anonymous, or a user id
Identities == {JNull} \cup {BigIntCol(i) : i \in 1..MaxUsers}

ListIds == 1..(MaxLists + 1)

\* the routes that call checkPermissions, and the role each asks for
GatedRole ==
    [op \in {"GET /lists/:listId", "PUT /lists/:listId", "DELETE /lists/:listId",
             "GET /lists/:listId/users", "GET /lists/:listId/users/:userId",
             "PUT /lists/:listId/users/:userId",
             "DELETE /lists/:listId/users/:userId"} |->
        CASE op \in {"GET /lists/:listId", "GET /lists/:listId/users",
                     "GET /lists/:listId/users/:userId"} -> "read"
          [] op = "PUT /lists/:listId" -> "write"
          [] OTHER -> "owner"]

\* the exchange in `last` went through authenticate and the route parameters
\* of a route that calls checkPermissions
ReachedCheck ==
    /\ last.op \in DOMAIN GatedRole
    /\ last.type # "error"
    /\ last.listId # -1

\* in table perms, identity userId (NULL: anonymous) has a row of its own on
\* the list whose role ranks at least `required`
Holds(perms, userId, listId, required) ==
    \E p \in perms : /\ p.userId = userId
                     /\ p.listId = listId
                     /\ Rank(p.role) >= Rank(required)

\* C1: checkPermissions succeeds exactly when the row looked up for the
\* identity on the list exists and its role ranks at least the required role
\* under read < write < owner; otherwise it fails with insufficient-perms and
\* status 401.  Checked for every identity, list and role in every reachable
\* state, and for every exchange of a route that calls it.
C1_PermissionRank ==
    /\ \A id \in Identities, listId \in ListIds, required \in RoleSet :
        LET rows == PermissionRows(ToSql(id), listId)
            sufficient == \E p \in rows : Rank(p.role) >= Rank(required)
        IN  \A c \in checkPermissions(id, listId, required) :
                /\ c.ok <=> sufficient
                /\ ~c.ok => c.status = 401 /\ c.code = "insufficient-perms"
    /\ ReachedCheck =>
        LET sufficient == Holds(last.pre.permissions, last.userId, last.listId,
                                GatedRole[last.op])
        IN  /\ last.code = "insufficient-perms" <=> ~sufficient
            /\ last.code = "insufficient-perms" => last.status = 401

\* C1 witness: a caller holding read on a list was refused a write
C1_Witness ==
    /\ last.op = "PUT /lists/:listId"
    /\ last.code = "insufficient-perms"
    /\ \E p \in permissions :
        p.userId = last.userId /\ p.listId = last.listId /\ p.role = "read"

\* C2: the lookup uses one path, chosen by the identity: a user is checked
\* only against the user's own row, the anonymous identity only against the
\* list's anonymous row.  A user without a row fails even when the anonymous
\* row would do; an anonymous caller passes whenever the anonymous row does;
\* GET /lists selects rows the same way.
C2_SingleLookupPath ==
    /\ \A listId \in ListIds, required \in RoleSet :
        /\ \A i \in 1..MaxUsers :
            (~\E p \in permissions : p.userId = i /\ p.listId = listId)
                => \A c \in checkPermissions(BigIntCol(i), listId, required) : ~c.ok
        /\ \A c \in checkPermissions(JNull, listId, required) :
            c.ok <=> Holds(permissions, NULL, listId, required)
    /\ \A hdr \in Headers :
        LET out == GetListsOut(hdr)
        IN  out.status = 200 =>
                out.res.lists = {l \in lists : \E p \in permissions :
                                    p.listId = l.id /\ p.userId = out.userId}
    /\ (ReachedCheck /\ last.userId # NULL
            /\ ~\E p \in last.pre.permissions :
                    p.userId = last.userId /\ p.listId = last.listId)
        => last.code = "insufficient-perms"

\* C2 witness: a user without a row was refused on a list whose anonymous
\* row is owner
C2_Witness ==
    /\ ReachedCheck
    /\ last.userId # NULL
    /\ last.code = "insufficient-perms"
    /\ Holds(permissions, NULL, last.listId, "owner")

\* C3: after a successful POST /lists by identity u the row (u, new list,
\* owner) exists and u passes an owner check on it; a user with no row on a
\* list gets 401 insufficient-perms on PUT /lists/:listId, which leaves the
\* tables as they were.
C3_CreatorOwns ==
    /\ (last.op = "POST /lists" /\ last.status = 201) =>
        LET listId == SqlNumber(last.res.listId.s)
        IN  /\ listId \in {l.id : l \in lists}
            /\ listId \notin {l.id : l \in last.pre.lists}
            /\ \E p \in permissions : /\ p.userId = last.userId
                                        /\ p.listId = listId
                                        /\ p.role = "owner"
            /\ \A c \in checkPermissions(BigIntCol(last.userId), listId, "owner") : c.ok
    /\ \A l \in lists, hdr \in Headers, body \in PutListBodies :
        LET auth == authenticate(hdr, "false")
        IN  (/\ auth.ok
             /\ ToSql(auth.userId) # NULL
             /\ ~\E p \in permissions : p.userId = ToSql(auth.userId) /\ p.listId = l.id)
            => \A out \in PutListOut(hdr, NatToStr(l.id), body) :
                    out.status = 401 /\ out.code = "insufficient-perms"
    /\ (last.op = "PUT /lists/:listId" /\ last.code = "insufficient-perms") =>
        /\ lists = last.pre.lists
        /\ permissions = last.pre.permissions

\* C3 witness: a user with no row was refused PUT on a list another user owns
C3_Witness ==
    /\ last.op = "PUT /lists/:listId"
    /\ last.code = "insufficient-perms"
    /\ last.status = 401
    /\ last.userId # NULL
    /\ \E l \in lists : l.id = last.listId
    /\ \E p \in permissions :
        p.listId = last.listId /\ p.role = "owner" /\ p.userId \notin {NULL, last.userId}
    /\ ~\E p \in permissions : p.listId = last.listId /\ p.userId = last.userId

\* the requirements a route can pass to authenticate
Requires == {"true", "false", "credentials", "token"}

\* the requirements under which a Bearer header is looked at
BearerRequires == {"true", "false", "token"}

\* the requirements under which a Basic header is looked at
BasicRequires == {"true", "false", "credentials"}

\* the responses of every route that takes a Bearer header as authentication
TokenRouteResponses(hdr) ==
    GetUsersOut(hdr)
    \cup {PutUsersOut(hdr, body) : body \in PutUsersBodies}
    \cup {DeleteUsersOut(hdr), LogoutOut(hdr), GetListsOut(hdr)}
    \cup {PostListsOut(hdr, body, "none") : body \in PostListsBodies}
    \cup UNION {GetListOut(hdr, lp) : lp \in ListParams}
    \cup UNION {DeleteListOut(hdr, lp) : lp \in ListParams}

\* the responses of POST /users/login
LoginResponses(hdr) == {LoginOut(hdr, nonce, fault) : nonce \in Nonces, fault \in {"none", "first"}}

\* the issued sessions whose expiration has passed
Expired == {sid \in DOMAIN issued : issued[sid].expirationDate < now}

Present(sid) == \E s \in sessions : s.id = sid

\* C4: once a session's expiration has passed, every Bearer request with its
\* token fails with 401 expired-session on every route that authenticates by
\* token, and the answer is the same whether the session row is still in the
\* table or has been deleted by purge or logout: a token whose row is gone
\* gets the same failure as one whose row has expired.
C4_ExpiredSessionRejected ==
    /\ \A sid \in DOMAIN issued :
        (sid \in Expired \/ ~Present(sid)) =>
            LET hdr == BearerAuth(issued[sid].token)
            IN  /\ \A r \in BearerRequires :
                    LET a == authenticate(hdr, r)
                    IN  ~a.ok /\ a.status = 401 /\ a.code = "expired-session"
                /\ Idle => \A out \in TokenRouteResponses(hdr) :
                    out.status = 401 /\ out.code = "expired-session"
    /\ (last.hdr.scheme = "Bearer" /\ last.op # "POST /users/login"
            /\ \E sid \in Expired : issued[sid].token = last.hdr.token)
        => /\ last.status = 401
           /\ last.code = "expired-session"
           /\ Snapshot = last.pre

\* C4 witness: a request with the token of an expired session still in the
\* table was refused, while another expired session is already gone
C4_Witness ==
    /\ last.hdr.scheme = "Bearer"
    /\ last.code = "expired-session"
    /\ \E sid \in Expired : Present(sid) /\ issued[sid].token = last.hdr.token
    /\ \E sid \in Expired : ~Present(sid)

\* C5 as stated: a session is invalid at every instant with
\* now >= expirationDate
C5_Original ==
    \A s \in sessions :
        now >= s.expirationDate =>
            \A r \in BearerRequires : ~authenticate(BearerAuth(issued[s.id].token), r).ok

\* C5 (as amended): a session is invalid at every instant with
\* now > expirationDate; Bearer authentication accepts a session while
\* expirationDate >= now, so a request at exactly now = expirationDate is
\* still accepted.
C5_ValidThroughExpiration ==
    /\ \A s \in sessions :
        s.id \in DOMAIN issued /\ s.expirationDate = issued[s.id].expirationDate
    /\ \A sid \in DOMAIN issued, r \in BearerRequires :
        authenticate(BearerAuth(issued[sid].token), r).ok
            <=> (Present(sid) /\ issued[sid].expirationDate >= now)

\* C5 witness: a Bearer request was accepted at now = expirationDate
C5_Witness ==
    /\ last.hdr.scheme = "Bearer"
    /\ last.type = "token"
    /\ last.status = 200
    /\ \E s \in last.pre.sessions :
        issued[s.id].token = last.hdr.token /\ s.expirationDate = now

\* username and password as authenticate reads them from Basic credentials
CredUsername(cred) == Slice(cred, 0, IndexOf(cred, ":"))

CredPassword(cred) == Slice(cred, IndexOf(cred, ":") + 1, Len(cred))

\* C6: a successful POST /users answers 201 with the new userId and a token,
\* and that token at once authenticates as the new user (GET /users returns
\* the new user's profile); the token of POST /users/login authenticates as
\* the user whose credentials were presented; no token resolves to a user
\* other than the one it was issued for.
C6_TokenResolvesToItsUser ==
    /\ (last.op = "POST /users" /\ last.status = 201) =>
        /\ ToSql(last.res.userId) \notin {u.id : u \in last.pre.users}
        /\ \A out \in GetUsersOut(BearerAuth(last.res.token)) :
            /\ out.status = 200
            /\ out.res.user.id = last.res.userId
            /\ \E u \in users \ last.pre.users :
                u.id = out.userId /\ u.username = out.res.user.username
    /\ (last.op = "POST /users/login" /\ last.status = 200) =>
        /\ \E u \in users : /\ u.id = last.userId
                            /\ u.username = CredUsername(last.hdr.cred)
        /\ \A out \in GetUsersOut(BearerAuth(last.res.token)) :
            out.status = 200 /\ out.userId = last.userId
    /\ \A sid \in DOMAIN issued, r \in BearerRequires :
        LET a == authenticate(BearerAuth(issued[sid].token), r)
        IN  a.ok => ToSql(a.userId) = issued[sid].userId
    /\ (last.type = "token") =>
        \E sid \in DOMAIN issued :
            issued[sid].token = last.hdr.token /\ issued[sid].userId = last.userId

\* C6 witness: with two users registered, GET /users under a token returned
\* the profile of the second
C6_Witness ==
    /\ last.op = "GET /users"
    /\ last.status = 200
    /\ last.type = "token"
    /\ last.userId = 2
    /\ last.res.user.id = JStr(<<"2">>)
    /\ Cardinality(users) = 2

\* C7: usernames are unique in every reachable state; POST /users with a
\* username in use answers 409 username-taken and creates neither a user nor
\* a session; a store error of another kind answers 500 internal-error.
C7_UniqueUsernames ==
    /\ \A u1 \in users, u2 \in users : u1.username = u2.username => u1 = u2
    /\ Idle => \A body \in PostUsersBodies, nonce \in Nonces, fault \in Faults :
        LET out == PostUsersOut(body, nonce, fault)
            valid == jsonValidate(body, PostUsersShape, TRUE).ok
            taken == \E u \in users : u.username = Get(body, "username").s
        IN  /\ (valid /\ fault = "first") =>
                out.status = 500 /\ out.code = "internal-error"
            /\ (valid /\ fault # "first" /\ taken) =>
                out.status = 409 /\ out.code = "username-taken"
            /\ (valid /\ fault = "second" /\ ~taken) =>
                out.status = 500 /\ out.code = "internal-error"
            /\ out.code = "username-taken" => taken
    /\ (last.op = "POST /users" /\ last.code = "username-taken") =>
        /\ last.status = 409
        /\ users = last.pre.users
        /\ sessions = last.pre.sessions

\* C7 witness: a registration under a username in use was refused
C7_Witness ==
    /\ last.op = "POST /users"
    /\ last.code = "username-taken"
    /\ last.status = 409
    /\ users # {}

\* C8 as stated: every authentication failure, invalid-auth included, is a
\* client error with HTTP status 401
C8_AuthFailures401 ==
    /\ \A hdr \in Headers, r \in Requires :
        LET a == authenticate(hdr, r)
        IN  ~a.ok => a.status = 401
    /\ last.code \in {"missing-user", "invalid-password", "expired-session",
                      "auth-required", "invalid-auth"} => last.status = 401

\* does authenticate look at the header under requirement r
Accepted(hdr, r) ==
    \/ hdr.scheme = "Basic" /\ r \in BasicRequires
    \/ hdr.scheme = "Bearer" /\ r \in BearerRequires

\* C9: with no Authorization header and a falsy requirement authenticate
\* yields {type: none, userId: null}; with a truthy requirement and no
\* accepted scheme it fails with auth-required; a requirement restricted to
\* one scheme never tries the other, so POST /users/login given a valid
\* Bearer token fails with auth-required and creates no session.
C9_FallThrough ==
    /\ \A hdr \in Headers, r \in Requires :
        LET a == authenticate(hdr, r)
        IN  ~Accepted(hdr, r) =>
                IF r = "false"
                THEN a.ok /\ a.type = "none" /\ a.userId = JNull
                ELSE ~a.ok /\ a.status = 401 /\ a.code = "auth-required"
    /\ \A hdr \in Headers :
        hdr.scheme = "Bearer" =>
            \A out \in LoginResponses(hdr) :
                out.status = 401 /\ out.code = "auth-required"
    /\ (last.op = "POST /users/login" /\ last.hdr.scheme = "Bearer") =>
        /\ last.code = "auth-required"
        /\ sessions = last.pre.sessions

\* C9 witness: POST /users/login was refused a Bearer token that GET /users
\* accepts
C9_Witness ==
    /\ last.op = "POST /users/login"
    /\ last.hdr.scheme = "Bearer"
    /\ last.code = "auth-required"
    /\ authenticate(last.hdr, "true").ok

\* the password a stored digest was derived from
PlainOf(row) == row.password[2]

\* C10: on the Basic path an unknown username fails with missing-user and a
\* known username with a wrong password with invalid-password, both with
\* status 401 and no change to the store; only a known username with its
\* password yields {type: credentials, userId} of that user.
C10_BasicPath ==
    /\ \A hdr \in Headers, r \in BasicRequires :
        hdr.scheme = "Basic" =>
            LET a == authenticate(hdr, r)
                rows == {u \in users : u.username = CredUsername(hdr.cred)}
            IN  IF rows = {}
                THEN ~a.ok /\ a.status = 401 /\ a.code = "missing-user"
                ELSE \A row \in rows :
                        IF PlainOf(row) = CredPassword(hdr.cred)
                        THEN /\ a.ok
                             /\ a.type = "credentials"
                             /\ a.userId = BigIntCol(row.id)
                        ELSE ~a.ok /\ a.status = 401 /\ a.code = "invalid-password"
    /\ last.code \in {"missing-user", "invalid-password"} =>
        /\ last.status = 401
        /\ last.hdr.scheme = "Basic"
        /\ Snapshot = last.pre
    /\ last.type = "credentials" =>
        \E row \in last.pre.users :
            /\ row.id = last.userId
            /\ row.username = CredUsername(last.hdr.cred)
            /\ PlainOf(row) = CredPassword(last.hdr.cred)

\* C10 witness: a known username with a wrong password was refused
C10_Witness ==
    /\ last.code = "invalid-password"
    /\ \E u \in users : /\ u.username = CredUsername(last.hdr.cred)
                        /\ PlainOf(u) # CredPassword(last.hdr.cred)

\* Basic authentication outcome for user u presenting password p
BasicOutcome(u, p, r) == authenticate(BasicAuth(u.username \o <<":">> \o p), r)

\* the stored digest of u is the digest of the password u set last, under
\* the salt stored with it
StoredHashIsLastSet(u) ==
    /\ u.id \in DOMAIN passwordSet
    /\ u.password = hashPassword(passwordSet[u.id], u.salt)

\* Basic authentication for u succeeds exactly with the password u set last
VerifiesLastSet(u) ==
    \A p \in Passwords, r \in BasicRequires :
        LET a == BasicOutcome(u, p, r)
        IN  IF p = passwordSet[u.id]
            THEN a.ok /\ a.type = "credentials" /\ ToSql(a.userId) = u.id
            ELSE ~a.ok /\ a.status = 401 /\ a.code = "invalid-password"

\* C11 as stated: at any point in any sequence of registrations and PUT /users
\* password updates, Basic authentication for a user succeeds exactly when
\* the supplied password is the one last set for that user, and a previous
\* password yields invalid-password.
C11_PasswordTracksLastSet ==
    \A u \in users : StoredHashIsLastSet(u) /\ VerifiesLastSet(u)

\* C11, for the users whose username holds no colon: the stored digest is
\* that of the password set last, Basic authentication succeeds exactly with
\* that password, and after PUT /users has changed the password the previous
\* one yields invalid-password.
C11_ColonFreeUsers ==
    /\ \A u \in users : StoredHashIsLastSet(u)
    /\ \A u \in users : IndexOf(u.username, ":") = -1 => VerifiesLastSet(u)
    /\ (last.op = "PUT /users" /\ last.status = 200) =>
        \A old \in last.pre.users, u \in users :
            (old.id = u.id /\ old.password # u.password
                    /\ IndexOf(u.username, ":") = -1) =>
                /\ u.id = last.userId
                /\ \A r \in BasicRequires :
                    /\ BasicOutcome(u, PlainOf(old), r).code = "invalid-password"
                    /\ BasicOutcome(u, passwordSet[u.id], r).ok

\* C11 witness: the user registered as a:b with password p presents exactly
\* these credentials to POST /users/login and is refused
C11_Witness ==
    /\ last.op = "POST /users/login"
    /\ last.hdr = BasicAuth(ColonName \o <<":", "p">>)
    /\ last.status = 401
    /\ \E u \in users : u.username = ColonName /\ passwordSet[u.id] = <<"p">>

\* the issued session whose token a header carries, if any
SessionOfHeader(hdr) == {sid \in DOMAIN issued : issued[sid].token = hdr.token}

\* every Bearer request with the token of session sid fails with 401
\* expired-session
TokenRefused(sid) ==
    \A r \in BearerRequires :
        LET a == authenticate(BearerAuth(issued[sid].token), r)
        IN  ~a.ok /\ a.status = 401 /\ a.code = "expired-session"

\* what a logout that was answered has done
LogoutEffect ==
    last.op = "POST /users/logout" =>
        /\ last.type = "token" =>
            /\ last.status = 200
            /\ \A sid \in SessionOfHeader(last.hdr) :
                /\ ~Present(sid)
                /\ TokenRefused(sid)
                /\ sessions = {s \in last.pre.sessions : s.id # sid}
                /\ \A s \in sessions, r \in BearerRequires :
                    authenticate(BearerAuth(issued[s.id].token), r).ok
                        <=> s.expirationDate >= now
            /\ users = last.pre.users
            /\ permissions = last.pre.permissions
            /\ lists = last.pre.lists
        /\ last.type \in {"none", "credentials"} =>
            /\ last.status = 200
            /\ last.hdr.scheme \in {"none", "Digest", "Basic"}
            /\ Snapshot = last.pre
        /\ last.status # 200 => Snapshot = last.pre

\* a session that is gone is gone for good, and its token stays refused
GoneStaysGone ==
    \A sid \in DOMAIN issued :
        ~Present(sid) => TokenRefused(sid) /\ ~Present(sid)'

\* sessions appear only in a successful POST /users or POST /users/login, one
\* at a time
CreatedOnlyByLoginOrRegistration ==
    sessions' \ sessions # {} =>
        /\ last'.op \in {"POST /users", "POST /users/login"}
        /\ last'.status \in {200, 201}
        /\ Cardinality(sessions' \ sessions) = 1
        /\ sessions \subseteq sessions'

\* sessions disappear only in a logout, in the deletion of their user or,
\* expired, in a purge
DeletedOnlyKnowingly ==
    sessions \ sessions' # {} =>
        \/ last'.op = "POST /users/logout" /\ Cardinality(sessions \ sessions') = 1
        \/ /\ last'.op = "DELETE /users"
           /\ \A s \in sessions \ sessions' : s.userId = last'.userId
        \/ /\ last' = last
           /\ \A s \in sessions \ sessions' : s.expirationDate < now

\* C12: a session is created only by login or registration and is deleted by
\* logout: after POST /users/logout with a valid token every later Bearer
\* request with that token fails with 401 expired-session, every other
\* session is left untouched and stays valid, and a logout without a
\* session-bearing credential succeeds and deletes nothing.
C12_LogoutEndsOneSession ==
    /\ []LogoutEffect
    /\ [][GoneStaysGone /\ CreatedOnlyByLoginOrRegistration /\ DeletedOnlyKnowingly]_vars

\* C12 witness: a user with two sessions has logged out of one of them, and
\* the other one is still there and valid
C12_Witness ==
    /\ last.op = "POST /users/logout"
    /\ last.type = "token"
    /\ last.status = 200
    /\ \E sid \in SessionOfHeader(last.hdr) :
        /\ ~Present(sid)
        /\ \E s \in sessions :
            /\ s.userId = issued[sid].userId
            /\ s.id # sid
            /\ authenticate(BearerAuth(issued[s.id].token), "true").ok

\* every foreign key of the store references an existing row
ReferentialIntegrity ==
    /\ \A s \in sessions : \E u \in users : u.id = s.userId
    /\ \A p \in permissions :
        /\ \E l \in lists : l.id = p.listId
        /\ p.userId # NULL => \E u \in users : u.id = p.userId
    /\ \A i \in items : \E l \in lists : l.id = i.listId

\* C13: referential integrity holds in every reachable state: every session
\* references an existing user, every permission row an existing list and (if
\* its userId is not null) an existing user, every item an existing list.
\* DELETE /users removes all sessions and permission rows of the user, whose
\* tokens no longer authenticate, and granting a role to a user id that does
\* not exist creates no row.
C13_ReferentialIntegrity ==
    /\ ReferentialIntegrity
    /\ (last.op = "DELETE /users" /\ last.status = 200) =>
        /\ ~\E u \in users : u.id = last.userId
        /\ ~\E s \in sessions : s.userId = last.userId
        /\ ~\E p \in permissions : p.userId = last.userId
        /\ \A sid \in DOMAIN issued :
            issued[sid].userId = last.userId => TokenRefused(sid)
        /\ \A s \in last.pre.sessions : s.userId # last.userId => s \in sessions
        /\ \A q \in last.pre.permissions : q.userId # last.userId => q \in permissions
    /\ Idle =>
        \A hdr \in Headers, listParam \in ListParams, userParam \in UserParams,
           body \in PutListUserBodies :
            \A g \in ListUserGate(hdr, "true", listParam, userParam, "owner") :
                (g.ok /\ ~\E u \in users : u.id = g.targetUserId) =>
                    LET out == PutListUserBody(hdr, g, body, "none")
                    IN  out.res = NoRes /\ out.status # 200
    /\ (last.op = "PUT /lists/:listId/users/:userId" /\ last.status # 200) =>
        Snapshot = last.pre

\* C13 witness: a user who had a session and a permission row was deleted
C13_Witness ==
    /\ last.op = "DELETE /users"
    /\ last.status = 200
    /\ \E s \in last.pre.sessions : s.userId = last.userId
    /\ \E p \in last.pre.permissions : p.userId = last.userId
    /\ \E sid \in DOMAIN issued : issued[sid].userId = last.userId

\* C14: in every reachable state there is at most one permission row per
\* (user-or-null, list) pair, and so at most one anonymous row per list,
\* after any sequence of list creations, grants, revocations, deletions and
\* purges.
C14_OneRowPerPair ==
    /\ \A p \in permissions, q \in permissions :
        (p.userId = q.userId /\ p.listId = q.listId) => p = q
    /\ \A l \in lists :
        Cardinality({p \in permissions : p.userId = NULL /\ p.listId = l.id}) <= 1
    /\ (last.op = "PUT /lists/:listId/users/:userId" /\ last.status = 200) =>
        Cardinality(permissions) \in
            {Cardinality(last.pre.permissions), Cardinality(last.pre.permissions) + 1}

\* C14 witness: a user who held a row on a list was granted another role on
\* it, and holds one row still
C14_Witness ==
    /\ last.op = "PUT /lists/:listId/users/:userId"
    /\ last.status = 200
    /\ \E old \in last.pre.permissions, new \in permissions :
        /\ old.userId = new.userId
        /\ old.listId = new.listId
        /\ old.listId = last.listId
        /\ old.role # new.role
        /\ Cardinality(permissions) = Cardinality(last.pre.permissions)

\* the id a PUT body carries
BodyId(body) == StrToNat(Get(body, "id").s)

PutOps == {"PUT /users", "PUT /lists/:listId", "PUT /lists/:listId/items/:itemId"}

\* PUT /lists/:listId with an id in the body: immutable-id exactly when the
\* id is not the list's
PutListIdRule ==
    \A hdr \in Headers, listParam \in ListParams, body \in PutListBodies :
        \A g \in ListGate(hdr, "false", listParam, "write") :
            (g.ok /\ jsonValidate(body, PutListShape, TRUE).ok /\ HasKey(body, "id")) =>
                LET out == PutListBody(hdr, g, body)
                IN  IF BodyId(body) # g.listId
                    THEN out.code = "immutable-id" /\ out.res = NoRes
                    ELSE out.status = 200

\* PUT /lists/:listId/items/:itemId with an id in the body: immutable-id
\* exactly when the id is not the item's
PutItemIdRule ==
    \A hdr \in Headers, listParam \in ListParams, itemParam \in ItemParams,
       body \in PutItemBodies :
        \A g \in ListItemGate(hdr, listParam, itemParam, "write") :
            (g.ok /\ jsonValidate(body, PutItemShape, TRUE).ok /\ HasKey(body, "id")) =>
                LET out == PutItemBody(hdr, g, body)
                IN  IF BodyId(body) # g.itemId
                    THEN out.code = "immutable-id" /\ out.res = NoRes
                    ELSE /\ out.code # "immutable-id"
                         /\ ItemsById(g.listId, g.itemId) # {} => out.status = 200

\* the PUT /users requests of an authenticated user whose body carries an id
PutUsersWithId ==
    {r \in [hdr : Headers, body : PutUsersBodies] :
        /\ authenticate(r.hdr, "true").ok
        /\ jsonValidate(r.body, PutUsersShape, TRUE).ok
        /\ HasKey(r.body, "id")}

\* PUT /users with an id that is not the user's: immutable-id
PutUsersRejectsOtherId ==
    \A r \in PutUsersWithId :
        BodyId(r.body) # ToSql(authenticate(r.hdr, "true").userId) =>
            PutUsersOut(r.hdr, r.body).code = "immutable-id"

\* PUT /users with the user's own id: accepted
PutUsersAcceptsOwnId ==
    \A r \in PutUsersWithId :
        BodyId(r.body) = ToSql(authenticate(r.hdr, "true").userId) =>
            PutUsersOut(r.hdr, r.body).status = 200

\* a request refused with immutable-id has changed nothing, and no PUT
\* changes the id of a row
PutKeepsIds ==
    /\ last.code = "immutable-id" =>
        last.status = DefaultStatus /\ last.op \in PutOps /\ Snapshot = last.pre
    /\ last.op \in PutOps =>
        /\ {u.id : u \in users} = {u.id : u \in last.pre.users}
        /\ {l.id : l \in lists} = {l.id : l \in last.pre.lists}
        /\ {<<i.id, i.listId>> : i \in items} = {<<i.id, i.listId>> : i \in last.pre.items}

\* C15 as stated: a PUT on a user, list or item whose body carries an id is
\* rejected with immutable-id, changing nothing, whenever the id differs from
\* the id of the resource addressed, and is accepted when the id is the
\* resource's own; no request changes the id of a user, list or item.
C15_ImmutableIds ==
    /\ Idle => /\ PutListIdRule
               /\ PutItemIdRule
               /\ PutUsersRejectsOtherId
               /\ PutUsersAcceptsOwnId
    /\ PutKeepsIds

\* C15 without the acceptance of a user's own id: the rule holds for lists
\* and items, PUT /users rejects every other id, and no PUT changes an id.
C15_ListsAndItems ==
    /\ Idle => PutListIdRule /\ PutItemIdRule /\ PutUsersRejectsOtherId
    /\ PutKeepsIds

\* C15 witness: user 1, authenticated by token, is refused a PUT /users whose
\* body carries the id 1, while a PUT on an item with the item's id went
\* through
C15_Witness ==
    /\ last.op = "PUT /lists/:listId/items/:itemId"
    /\ last.status = 200
    /\ last.itemId = 1
    /\ \E i \in items : i.id = 1 /\ i.state = <<"complete">>
    /\ \E r \in PutUsersWithId :
        /\ r.hdr.scheme = "Bearer"
        /\ ToSql(authenticate(r.hdr, "true").userId) = 1
        /\ BodyId(r.body) = 1
        /\ PutUsersOut(r.hdr, r.body).code = "immutable-id"

\* a step of purge(): no request is pending before or after it and the clock
\* stands still
PurgeStep == last = NoRequest /\ last' = NoRequest /\ now' = now

\* the lists no permission row refers to
Orphaned(ls, perms) == {l \in ls : \A p \in perms : p.listId # l.id}

\* what one run deletes and what it leaves
PurgeExact ==
    /\ sessions' \subseteq sessions
    /\ sessions \ sessions' = {s \in sessions : s.expirationDate < now}
    /\ lists' \subseteq lists
    /\ lists \ lists' = Orphaned(lists, permissions)
    /\ items' \subseteq items
    /\ items \ items' =
        {i \in items : i.listId \in {l.id : l \in Orphaned(lists, permissions)}}
    /\ users' = users
    /\ permissions' = permissions

\* a second run right after the first finds nothing to delete
PurgeIdempotent ==
    /\ {s \in sessions' : s.expirationDate < now'} = {}
    /\ Orphaned(lists', permissions') = {}
    /\ \A i \in items' : \E l \in lists' : l.id = i.listId

\* C16: one purge run deletes exactly the sessions whose expirationDate is
\* before now and exactly the lists without a permission row, with their
\* items, leaves users, permission rows and all other sessions and lists as
\* they were, and a second run immediately afterwards changes nothing.
C16_PurgeExactAndIdempotent == [][PurgeStep => PurgeExact /\ PurgeIdempotent]_vars

\* C16 witness: purge has removed an expired session, the only list once its
\* last permission row was gone, and that list's item, while a session that
\* has not expired is still there
C16_Witness ==
    /\ Idle
    /\ \E sid \in DOMAIN issued :
        /\ issued[sid].expirationDate < now
        /\ \A s \in sessions : s.id # sid
    /\ \E s \in sessions : s.expirationDate >= now
    /\ nextListId > 1 /\ lists = {}
    /\ nextItemId > 1 /\ items = {}
    /\ permissions = {}
    /\ users # {}

\* C17: purge run concurrently with requests never deletes rows of a request
\* that would otherwise succeed: the list row POST /lists has inserted is
\* still there when the owner permission row is inserted, and the request ends
\* with 201 and a list its creator owns.
C17_PurgeSafeConcurrently ==
    /\ InFlight => \E l \in lists : l.id = InFlightList
    /\ (last.op = "POST /lists" /\ ~InFlight) => last.status # InternalError.status
    /\ (last.op = "POST /lists" /\ last.status = Created.status) =>
        /\ \E l \in lists : l.id = StrToNat(last.res.listId.s)
        /\ \E p \in permissions :
            /\ p.listId = StrToNat(last.res.listId.s)
            /\ p.userId = last.userId
            /\ p.role = "owner"

\* C17 witness: user 1's POST /lists was answered 500 and left no list,
\* because purge deleted the new list row between the two INSERTs
C17_Witness ==
    /\ last.op = "POST /lists"
    /\ last.status = InternalError.status
    /\ last.userId = 1
    /\ nextListId = 2
    /\ lists = {}
    /\ permissions = {}
    /\ last.pre.lists = {}

\* the shape under an Optional
Unwrap(expected) == IF expected.t = "optional" THEN expected.vals[1] ELSE expected

\* the template element i of an array is held against
Cycled(expected, i) ==
    IF Len(expected.vals) = 0 THEN JUndefined
    ELSE expected.vals[((i - 1) % Len(expected.vals)) + 1]

\* Does the value match the shape: it has the shape's JSON type, a string is
\* not empty, an object has every required key and no key the shape lacks,
\* and what is under each key, and each element of an array, matches in turn.
\* An optional slot may be absent; with skip it may also hold null or "".
RECURSIVE Matches(_, _, _)
Matches(actual, expected, skip) ==
    IF expected.t = "optional" /\ actual.t = "undefined" THEN TRUE
    ELSE IF expected.t = "optional" /\ skip /\ actual \in {JNull, JStr(<<>>)} THEN TRUE
    ELSE
    LET shape == Unwrap(expected)
    IN  /\ jsonType(actual) = jsonType(shape)
        /\ shape.t = "string" => actual.s # <<>>
        /\ shape.t = "object" =>
            /\ \A k \in SeqToSet(shape.keys) :
                Get(shape, k).t # "optional" => HasKey(actual, k)
            /\ \A k \in SeqToSet(actual.keys) : HasKey(shape, k)
            /\ \A k \in SeqToSet(shape.keys) :
                Matches(Get(actual, k), Get(shape, k), skip)
        /\ shape.t = "array" =>
            \A i \in 1..Len(actual.vals) : Matches(actual.vals[i], Cycled(shape, i), skip)

\* a call of jsonValidate has ended
Validated == last.op = "jsonValidate"

\* the rejections: each kind of fault at the top of the body has its code,
\* every rejection is a ClientError, and an accepted value is returned as it
\* came
ValidateRejections ==
    Validated =>
        LET actual == last.res.actual
            shape == Unwrap(last.res.expected)
            skipped == last.res.expected.t = "optional"
                       /\ (jsonType(actual) = "null" \/ actual = JStr(<<>>))
            required == {k \in SeqToSet(shape.keys) : Get(shape, k).t # "optional"}
            missing == required \ SeqToSet(actual.keys)
            extra == SeqToSet(actual.keys) \ SeqToSet(shape.keys)
        IN  /\ last.status \in {ValidOk.status, DefaultStatus}
            /\ last.status = DefaultStatus =>
                last.code \in {"invalid-body", "missing-fields", "unexpected-fields"}
            /\ last.status = ValidOk.status => last.res.returned = actual
            /\ ~skipped =>
                /\ jsonType(actual) # jsonType(shape) => last.code = "invalid-body"
                /\ (shape.t = "string" /\ actual = JStr(<<>>)) => last.code = "missing-fields"
                /\ (shape.t = "object" /\ actual.t = "object" /\ missing # {}) =>
                    last.code = "missing-fields"
                /\ (shape.t = "object" /\ actual.t = "object" /\ missing = {} /\ extra # {}) =>
                    last.code = "unexpected-fields"

\* C18 as stated: jsonValidate accepts a body exactly when all required keys
\* are present, no key is outside the shape's key set and every present value
\* has the shape's JSON type and is not an empty string; the rejections carry
\* missing-fields, unexpected-fields and invalid-body; an accepted value is
\* returned unmodified.
C18_AcceptsExactlyMatching ==
    /\ Validated =>
        (last.status = ValidOk.status <=> Matches(last.res.actual, last.res.expected, FALSE))
    /\ ValidateRejections

\* C18 amended: as stated, except that under an optional slot a present null
\* or empty string is skipped, neither type-checked nor rejected as empty.
C18_AcceptsMatchingOrSkipped ==
    /\ Validated =>
        (last.status = ValidOk.status <=> Matches(last.res.actual, last.res.expected, TRUE))
    /\ ValidateRejections

\* C18 witness: {a: "x", b: ""} was accepted against {a: 's', b: Optional('s')}
\* and returned as it came
C18_Witness ==
    /\ Validated
    /\ last.status = ValidOk.status
    /\ last.res.expected = JObj(<<"a", "b">>, <<JStr(<<"s">>), Optional(JStr(<<"s">>))>>)
    /\ last.res.actual = JObj(<<"a", "b">>, <<JStr(<<"x">>), JStr(<<>>)>>)
    /\ last.res.returned = last.res.actual

\* a call of jsonValidate with an array and an array template that is not
\* empty has ended
ArrayValidated ==
    /\ Validated
    /\ last.res.actual.t = "array"
    /\ last.res.expected.t = "array"
    /\ Len(last.res.expected.vals) > 0

\* C19: element i of the actual array, counted from 0, is checked against
\* expected[i mod expected.length], and the array is accepted exactly when
\* every element passes its cycled template.
C19_ArrayCyclesTemplate ==
    ArrayValidated =>
        LET actual == last.res.actual.vals
            expected == last.res.expected.vals
        IN  last.status = ValidOk.status <=>
                \A i \in 0..(Len(actual) - 1) :
                    jsonValidate(actual[i + 1], expected[(i % Len(expected)) + 1], FALSE).ok

\* C19 witness: ["x", 1, "x"] was accepted against ['s', 7], its third
\* element held against the first template again
C19_Witness ==
    /\ ArrayValidated
    /\ last.status = ValidOk.status
    /\ last.res.expected = JArr(<<JStr(<<"s">>), JNum(7)>>)
    /\ last.res.actual = JArr(<<JStr(<<"x">>), JNum(1), JStr(<<"x">>)>>)

\* C20: decrypt(encrypt(payload)) is the payload, whichever iv encrypt draws:
\* the sessionId sealed is the sessionId recovered.
C20_TokenRoundTrip ==
    last.op = "decrypt" =>
        /\ last.code = "ok"
        /\ last.res.opened = last.res.sessionId

\* C20 witness: the sessionId 12 sealed under the iv 2 has been opened to 12
C20_Witness ==
    /\ last.op = "decrypt"
    /\ last.res.nonce = 2
    /\ last.res.sessionId = <<"1", "2">>
    /\ last.res.token # encrypt(<<"1", "2">>, 0)
    /\ last.res.opened = <<"1", "2">>

\* the token encrypt returned, before a client altered it
SealedToken == encrypt(last.res.sessionId, last.res.nonce)

\* every failure of decrypt is the one ClientError invalid-auth
OneFailureCode ==
    (last.op = "decrypt" /\ last.code # "ok") =>
        /\ last.code = "invalid-auth"
        /\ last.status = DefaultStatus
        /\ last.res.opened = <<>>

\* C21 as stated: a sealed token with any single byte changed fails to open,
\* every bad token fails with the one code invalid-auth, and no token other
\* than one encrypt produced resolves to a session.
C21_AnyChangeRejected ==
    /\ OneFailureCode
    /\ (last.op = "decrypt" /\ last.res.token # SealedToken) => last.code = "invalid-auth"

\* C21 for the bytes the token decodes to: a token whose decoded bytes differ
\* from the sealed ones fails with invalid-auth, and a token that opens decodes
\* to the sealed bytes and yields the sealed sessionId.
C21_DecodedBytesAuthenticated ==
    /\ OneFailureCode
    /\ (last.op = "decrypt" /\ FromBase64(last.res.token) # FromBase64(SealedToken)) =>
        last.code = "invalid-auth"
    /\ (last.op = "decrypt" /\ last.code = "ok") => last.res.opened = last.res.sessionId

\* C21 witness: the token of sessionId 1, its last character changed in the
\* bits that carry no data, has been opened to sessionId 1
C21_Witness ==
    /\ last.op = "decrypt"
    /\ last.res.sessionId = <<"1">>
    /\ last.res.token = [SealedToken EXCEPT ![Len(SealedToken)] = Spare(1)]
    /\ last.code = "ok"
    /\ last.res.opened = <<"1">>

\* the step in which a handler past its gates runs its mutating statement
ActStep == last.code = "checked" /\ last'.code # "checked"

\* the caller holds owner on the list, by the rows as they are now
ActorIsOwner ==
    \E p \in PermissionRows(last.userId, last.listId) : hasRole(p.role, "owner")

\* C22: every grant, revoke and list deletion executes its mutating statement
\* while its caller holds the required role on the list: none commits after
\* another request has revoked or lowered the caller's role since the check.
C22_NoCheckThenActRace == [][ActStep => ActorIsOwner]_vars

\* C22 witness: user 2 passed the owner check for revoking user 1, was then
\* lowered to read by user 1, and its DELETE removed user 1's row all the same
C22_Witness ==
    /\ last.op = "DELETE /lists/:listId/users/:userId"
    /\ last.status = RouteOk.status
    /\ last.userId = 2
    /\ last.res.targetUserId = 1
    /\ \E p \in last.pre.permissions : p.userId = 1 /\ p.listId = last.listId
    /\ \E p \in last.pre.permissions :
        p.userId = 2 /\ p.listId = last.listId /\ p.role = "owner"
    /\ \A p \in permissions : p.userId # 1
    /\ \E p \in permissions : p.userId = 2 /\ p.listId = last.listId /\ p.role = "read"

\* the step in which a grant runs its INSERT ... ON DUPLICATE KEY UPDATE and
\* the handler returns
GrantStep ==
    /\ ActStep
    /\ last.op = "PUT /lists/:listId/users/:userId"
    /\ last'.status = RouteOk.status

\* the rows of the pair a grant is for
GrantedRows(perms) ==
    {p \in perms : p.userId = last.res.targetUserId /\ p.listId = last.listId}

\* after the statement the pair has one row, with the role granted; the rows
\* of other pairs are as they were; a grant of the role the pair already had
\* changes nothing
GrantEffect ==
    /\ Cardinality(GrantedRows(permissions')) = 1
    /\ \A p \in GrantedRows(permissions') : p.role = last.res.role
    /\ permissions' \ GrantedRows(permissions') = permissions \ GrantedRows(permissions)
    /\ (\E p \in GrantedRows(permissions) : p.role = last.res.role) =>
        permissions' = permissions

\* no user has two rows on a list
OneRowPerUserAndList ==
    \A p, q \in permissions :
        (p.userId # NULL /\ p.userId = q.userId /\ p.listId = q.listId) => p = q

\* C23: grants are idempotent upserts: however the PUT requests for one
\* (user, list) pair interleave, the pair has exactly one row after each
\* grant, with the role of the grant applied last, and repeating a grant
\* changes nothing.
C23_GrantsAreUpserts == []OneRowPerUserAndList /\ [][GrantStep => GrantEffect]_vars

\* C23 witness: a grant that found user 2 with another role on the list was
\* applied after another client's grant or revoke had run since its check,
\* and user 2 has one row, with the role granted
C23_Witness ==
    /\ last.op = "PUT /lists/:listId/users/:userId"
    /\ last.status = RouteOk.status
    /\ last.res.targetUserId = 2
    /\ \E p \in last.pre.permissions :
        p.userId = 2 /\ p.listId = last.listId /\ p.role # last.res.role
    /\ \E p \in last.pre.permissions :
        p.userId = 1 /\ p.listId = last.listId /\ p.role = "owner"
    /\ \E p \in permissions : p.userId = 1 /\ p.listId = last.listId /\ p.role = "write"
    /\ {p.role : p \in {q \in permissions : q.userId = 2 /\ q.listId = last.listId}}
        = {last.res.role}

\* the codes with which a request is turned away at a gate
AuthCodes ==
    {"auth-required", "missing-user", "invalid-password", "expired-session", "invalid-auth"}

BodyCodes == {"invalid-body", "missing-fields", "unexpected-fields"}

GateCodes ==
    AuthCodes \cup BodyCodes
    \cup {"invalid-route-param", "insufficient-perms", "invalid-role", "invalid-state",
          "immutable-id"}

\* the first gate a request fails, in the order authenticate, route
\* parameters, permission check, body validation: its code, or "pass"
FirstGate(hdr, require, params, role, body, shape) ==
    LET auth == authenticate(hdr, require)
        listId == parseIntStrict(params[1])
        rows == PermissionRows(ToSql(auth.userId), SqlParam(listId))
        valid == jsonValidate(body, shape, TRUE)
    IN  IF ~auth.ok THEN auth.code
        ELSE IF \E i \in 1..Len(params) : isNaN(parseIntStrict(params[i]))
        THEN "invalid-route-param"
        ELSE IF \A p \in rows : ~hasRole(p.role, role) THEN "insufficient-perms"
        ELSE IF ~valid.ok THEN valid.code
        ELSE "pass"

\* a response agrees with the first gate failed
AtGate(out, gate) ==
    IF gate = "pass"
    THEN out.code \notin AuthCodes \cup BodyCodes \cup {"invalid-route-param", "insufficient-perms"}
    ELSE out.code = gate /\ out.res = NoRes

\* the responses of POST /lists/:listId/items and of
\* PUT /lists/:listId/users/:userId to a request
PostItemsOutcomes(hdr, listParam, body) ==
    {IF g.ok THEN PostItemsBody(hdr, g, body, "none")
     ELSE ListResponse("POST /lists/:listId/items", hdr, g, g.out, NoRes)
     : g \in ListGate(hdr, "false", listParam, "write")}

PutListUserOutcomes(hdr, listParam, userParam, body) ==
    {IF g.ok THEN PutListUserBody(hdr, g, body, "none")
     ELSE ListResponse("PUT /lists/:listId/users/:userId", hdr, g, g.out, NoRes)
     : g \in ListUserGate(hdr, "true", listParam, userParam, "owner")}

\* the four list-scoped routes that take a body answer by the first gate failed
GatesInOrder ==
    \A hdr \in Headers, listParam \in ListParams :
        /\ \A body \in PutListBodies : \A out \in PutListOut(hdr, listParam, body) :
            AtGate(out, FirstGate(hdr, "false", <<listParam>>, "write", body, PutListShape))
        /\ \A body \in PostItemsBodies : \A out \in PostItemsOutcomes(hdr, listParam, body) :
            AtGate(out, FirstGate(hdr, "false", <<listParam>>, "write", body, PostItemsShape))
        /\ \A body \in PutListUserBodies, userParam \in UserParams :
            \A out \in PutListUserOutcomes(hdr, listParam, userParam, body) :
                AtGate(out, FirstGate(hdr, "true", <<listParam, userParam>>, "owner",
                                      body, PutListUserShape))
        /\ \A body \in PutItemBodies, itemParam \in ItemParams :
            \A out \in PutItemOut(hdr, listParam, itemParam, body) :
                AtGate(out, FirstGate(hdr, "false", <<listParam, itemParam>>, "write",
                                      body, PutItemShape))

\* C24: every list-scoped route authenticates, parses its route parameters,
\* checks permissions and validates the body in that order and writes only
\* after all of them: a request turned away at a gate leaves the store as it
\* was, and one failing both the permission check and the body validation is
\* answered insufficient-perms.
C24_GatesBeforeWrites ==
    /\ Idle => GatesInOrder
    /\ last.code \in GateCodes => Snapshot = last.pre

\* C24 witness: user 2, holding read on list 1, was refused a PUT on it with
\* insufficient-perms, which is also the answer to a body that would not
\* validate, and nothing changed
C24_Witness ==
    /\ last.op = "PUT /lists/:listId"
    /\ last.code = "insufficient-perms"
    /\ last.userId = 2
    /\ last.listId = 1
    /\ \E p \in permissions : p.userId = 2 /\ p.listId = 1 /\ p.role = "read"
    /\ Snapshot = last.pre
    /\ \E body \in PutListBodies :
        /\ ~jsonValidate(body, PutListShape, TRUE).ok
        /\ \A out \in PutListOut(last.hdr, <<"1">>, body) : out.code = "insufficient-perms"

\* the Authorization headers that carry a token
BearerHeaders == {hdr \in Headers : hdr.scheme = "Bearer"}

\* a session the Authenticator accepts is not one purge would delete
AcceptedIsKept ==
    Idle => \A hdr \in BearerHeaders :
        LET auth == authenticate(hdr, "false")
        IN  auth.ok => \A s \in sessions :
                s.id = ToSql(auth.sessionId) => ~(s.expirationDate < now)

\* purge deletes no session a token resolves to, and every Bearer request is
\* answered after the run as it would have been before it
PurgeUnseen ==
    /\ \A hdr \in BearerHeaders : authenticate(hdr, "false")' = authenticate(hdr, "false")
    /\ \A s \in sessions \ sessions' : \A hdr \in BearerHeaders :
        decrypt(hdr.token).ok /\ decrypt(hdr.token).sessionId = NatToStr(s.id) =>
            authenticate(hdr, "false").code = "expired-session"

\* C25: purge never removes a session the Authenticator would still accept,
\* the Authenticator never accepts a session purge would remove, and a Bearer
\* request has the same outcome whether or not purge has run before it.
C25_PurgeAgreesWithAuthenticator == []AcceptedIsKept /\ [][PurgeStep => PurgeUnseen]_vars

\* C25 witness: the token of session 1 was refused as expired after purge had
\* deleted the session, while session 2, not yet expired, is still there
C25_Witness ==
    /\ last.hdr.scheme = "Bearer"
    /\ last.hdr.token = issued[1].token
    /\ last.code = "expired-session"
    /\ issued[1].expirationDate < now
    /\ \A s \in sessions : s.id # 1
    /\ \E s \in sessions : s.id = 2 /\ s.expirationDate >= now

\* the calls that hold a connection: past getConnection, before the release
Holding(f) == f.pc \in {"func", "send", "sessions", "lists", "finally"}

Flows == {pool.req[r] : r \in RequestSlots} \cup {pool.purge}

\* C26: every request through route() and every purge run acquires one pool
\* connection and releases it once when its work ends, however the handler
\* ends; the connections checked out are those of the calls under way, so
\* none is checked out when no request and no purge is in flight; purge holds
\* its connection only over its two DELETE statements.
C26_OneConnectionPerCall ==
    /\ pool.out = Cardinality({r \in RequestSlots : Holding(pool.req[r])})
                    + (IF Holding(pool.purge) THEN 1 ELSE 0)
    /\ \A f \in Flows :
        /\ f.acquired <= 1 /\ f.released <= f.acquired
        /\ Holding(f) <=> (f.acquired = 1 /\ f.released = 0)
        /\ f.pc = "next" => (f.acquired = 1 /\ f.released = 1)
        /\ f.pc = "idle" => (f.acquired = 0 /\ f.released = 0)
    /\ (\A f \in Flows : f.pc \in {"idle", "next"}) => pool.out = 0

\* C26 witness: a request whose handler threw an internal error has released
\* its connection, while another request and purge each hold one
C26_Witness ==
    /\ pool.req[1].pc = "next"
    /\ pool.req[1].err = "internal"
    /\ pool.req[1].released = 1
    /\ pool.req[2].pc = "send"
    /\ pool.purge.pc = "lists"
    /\ pool.out = 2

ItemOps ==
    {"GET /lists/:listId/items/:itemId", "PUT /lists/:listId/items/:itemId",
     "DELETE /lists/:listId/items/:itemId"}

\* the item the request addresses, if its list holds it
Addressed == {i \in last.pre.items : i.listId = last.listId /\ i.id = last.itemId}

\* every row but the addressed one is as it was, and a row that is new is
\* the addressed one, written over
OtherItemsKept ==
    /\ \A i \in last.pre.items \ Addressed : i \in items
    /\ \A i \in items \ last.pre.items :
            i.listId = last.listId /\ i.id = last.itemId /\ Addressed # {}

\* GET answers with the addressed row
ReadsAddressed ==
    (last.op = "GET /lists/:listId/items/:itemId" /\ last.code = "ok")
        => last.res.item \in Addressed

\* the lists the caller has no permission row on, of its own or anonymous
ListsOutOfReach ==
    {l.id : l \in last.pre.lists}
        \ {p.listId : p \in {q \in last.pre.permissions : q.userId = last.userId}}

\* nothing of a list out of the caller's reach is read, changed or deleted
OutOfReachUntouched ==
    \A i \in last.pre.items :
        i.listId \in ListsOutOfReach =>
            /\ i \in items
            /\ last.code = "ok" => last.res # [item |-> i]

\* PUT with no field but id: `if(Object.keys(body).length === 0) return`
PutOfNothing ==
    /\ last.op = "PUT /lists/:listId/items/:itemId"
    /\ last.code = "ok"
    /\ last.res = NoRes

RowsWritten == permissions' \ permissions

\* POST /lists wrote the row: the creator's owner row on the list it made
ByPostLists(p) ==
    /\ last'.op = "POST /lists"
    /\ p.role = "owner"
    /\ p.userId = last'.userId
    /\ p.listId = nextListId
    /\ \A l \in lists : l.id # p.listId

\* PUT /lists/L/users/:userId wrote the row, for a caller who has
\* authenticated as a user and holds owner on L
ByOwnersGrant(p) ==
    /\ last'.op = "PUT /lists/:listId/users/:userId"
    /\ last'.type \in {"credentials", "token"}
    /\ last'.userId # NULL
    /\ p.listId = last'.listId
    /\ \E q \in permissions :
            q.userId = last'.userId /\ q.listId = p.listId /\ q.role = "owner"

\* no list has a row of the anonymous identity and a row of a user
AnonymousListsStayAnonymous ==
    \A p, q \in permissions :
        (p.listId = q.listId /\ p.userId = NULL) => q.userId = NULL

\* an anonymous row goes only with its list, and never changes
AnonymousRowsKept ==
    \A p \in permissions :
        p.userId = NULL => (p \in permissions' \/ \A l \in lists' : l.id # p.listId)

\* C28: a permission row is inserted, or has its role changed, only by
\* POST /lists (the creator's owner row on the new list) or by
\* PUT /lists/L/users/:userId issued by an authenticated user who holds owner
\* on L; a list with an anonymous row never has a row of a user, and an
\* anonymous row is never changed or removed while its list exists.
C28_NoPrivilegeEscalation ==
    /\ []AnonymousListsStayAnonymous
    /\ [][/\ \A p \in RowsWritten : ByPostLists(p) \/ ByOwnersGrant(p)
          /\ AnonymousRowsKept]_vars

\* C28 witness: an owner's grant has raised another user's row on the list,
\* beside a caller's own row that is below owner
C28_Witness ==
    /\ last.op = "PUT /lists/:listId/users/:userId"
    /\ last.code = "ok"
    /\ \E p \in permissions \ last.pre.permissions, q \in last.pre.permissions :
        /\ p.userId = q.userId /\ p.listId = q.listId
        /\ p.userId # last.userId
        /\ q.role = "read" /\ p.role = "write"

\* GET /lists with this header answers with the list of this id
Listed(hdr, listId) ==
    LET out == GetListsOut(hdr)
    IN  out.code = "ok" /\ \E l \in out.res.lists : l.id = listId

\* checkPermissions(req, db, userId, listId, 'read') returns for the
\* identity this header resolves to
MayRead(hdr, listId) ==
    LET auth == authenticate(hdr, "false")
    IN  auth.ok /\ \A c \in checkPermissions(auth.userId, listId, "read") : c.ok

\* C29: for every identity (a user or anonymous) and every state, a list
\* appears in the identity's GET /lists result exactly when checkPermissions
\* for that identity on that list with required role read succeeds.
C29_ListingAgreesWithChecking ==
    Idle => \A hdr \in Headers, listId \in 1..(MaxLists + 1) :
                Listed(hdr, listId) <=> MayRead(hdr, listId)

\* C29 witness: one user is listed a list, with the role read, that another
\* user and the anonymous identity are neither listed nor may read
C29_Witness ==
    /\ Idle
    /\ \E p \in permissions : p.userId = 1 /\ p.role = "read"
    /\ \E l \in lists :
        /\ Listed(BasicAuth(<<"a", ":", "p">>), l.id)
        /\ MayRead(BasicAuth(<<"a", ":", "p">>), l.id)
        /\ ~Listed(NoAuth, l.id) /\ ~MayRead(NoAuth, l.id)
        /\ ~Listed(BasicAuth(<<"b", ":", "q">>), l.id)
        /\ ~MayRead(BasicAuth(<<"b", ":", "q">>), l.id)

\* the headers that present a credential
CredentialHeaders == {hdr \in Headers : hdr.scheme \in {"Basic", "Bearer"}}

CredentialFailures == {"missing-user", "invalid-password", "expired-session", "invalid-auth"}

\* the user a header's credential proves: the one whose name and password a
\* Basic header gives, the one whose unexpired session a Bearer token was
\* issued for
Proves(hdr, userId) ==
    \/ /\ hdr.scheme = "Basic"
       /\ \E u \in users :
            /\ u.id = userId
            /\ hdr.cred = u.username \o <<":">> \o passwordSet[u.id]
    \/ /\ hdr.scheme = "Bearer"
       /\ \E sid \in DOMAIN issued :
            /\ issued[sid].token = hdr.token
            /\ issued[sid].userId = userId
            /\ \E s \in sessions :
                s.id = sid /\ s.userId = userId /\ s.expirationDate >= now

\* authenticate(req, db, false) on a credential: the user proved, or a failure
NeverAnonymous(hdr) ==
    LET auth == authenticate(hdr, "false")
    IN  /\ auth.type # "none"
        /\ auth.ok => Proves(hdr, ToSql(auth.userId))
        /\ ~auth.ok => auth.code \in CredentialFailures

\* the routes of this specification that authenticate with require = false
OptionalRoutes ==
    {"POST /lists", "POST /lists/:listId/items", "DELETE /lists/:listId/users/:userId"}

\* C30: on a route with optional authentication a request that carries a
\* Basic or Bearer header resolves to the user the credential proves or
\* fails with missing-user, invalid-password, expired-session or
\* invalid-auth; it is never handled as the anonymous identity, and writes
\* nothing when the credential fails.
C30_CredentialNeverDowngraded ==
    /\ Idle => \A hdr \in CredentialHeaders : NeverAnonymous(hdr)
    /\ (last.op \in OptionalRoutes /\ last.hdr \in CredentialHeaders) =>
            /\ last.type # "none"
            /\ last.code = "ok" => Proves(last.hdr, last.userId)
            /\ last.type = "error" =>
                    (last.code \in CredentialFailures /\ Snapshot = last.pre)

\* C30 witness: a list with an anonymous owner row exists, and a request to
\* add an item to it under an expired session's token is refused
C30_Witness ==
    /\ last.op = "POST /lists/:listId/items"
    /\ last.hdr.scheme = "Bearer"
    /\ last.hdr.token \in IssuedTokens
    /\ last.code = "expired-session"
    /\ \E p \in permissions : p.userId = NULL /\ p.role = "owner"
    /\ items = {}

\* the token was issued for a session of these that has not expired
IssuedAndLive(hdr, ss) ==
    \E sid \in DOMAIN issued :
        /\ issued[sid].token = hdr.token
        /\ \E s \in ss : s.id = sid /\ s.userId = issued[sid].userId
                         /\ s.expirationDate >= now

\* the Authenticator accepts a token exactly for such a session, as its user
AcceptsIssuedAndLive(ss) ==
    \A hdr \in BearerHeaders :
        LET auth == authenticate(hdr, "true")
        IN  /\ auth.ok <=> IssuedAndLive(hdr, ss)
            /\ auth.ok => \E sid \in DOMAIN issued :
                            /\ issued[sid].token = hdr.token
                            /\ issued[sid].userId = ToSql(auth.userId)
                            /\ JStr(NatToStr(sid)) = auth.sessionId

\* once PUT /users is handled the sessions are those it found, and a token
\* is accepted exactly if its session was live before the update
UpdateKeepsSessions ==
    last.op = "PUT /users" =>
        /\ sessions = last.pre.sessions
        /\ AcceptsIssuedAndLive(last.pre.sessions)

\* what ends a session: a logout under its token, the deletion of its user,
\* or purge once it has expired
SessionEnded(s) ==
    \/ /\ last'.op = "POST /users/logout"
       /\ last'.hdr = BearerAuth(issued[s.id].token)
    \/ last'.op = "DELETE /users" /\ last'.userId = s.userId
    \/ last' = last /\ s.expirationDate < now

\* C31: PUT /users leaves the sessions table unchanged: every token issued
\* before the update is accepted after it exactly if it was before, the
\* updated user's and every other user's; a session is removed only by a
\* logout under its token, by the deletion of its user, or after its expiry.
C31_UpdateKeepsSessions ==
    /\ [](UpdateKeepsSessions /\ (Idle => AcceptsIssuedAndLive(sessions)))
    /\ [][\A s \in sessions \ sessions' : SessionEnded(s)]_vars

\* C31 witness: user 1 has set a new password, and the token issued to them
\* before that, like the token of user 2, is still accepted
C31_Witness ==
    /\ last.op = "PUT /users"
    /\ last.code = "ok"
    /\ last.userId = 1
    /\ users # last.pre.users
    /\ \E h1, h2 \in BearerHeaders :
        /\ authenticate(h1, "true").ok /\ ToSql(authenticate(h1, "true").userId) = 1
        /\ authenticate(h2, "true").ok /\ ToSql(authenticate(h2, "true").userId) = 2

====
